---- MODULE Spec2Model ----
(***************************************************************************)
(* Model of the QMLA search orchestrator                                   *)
(* (qmla/quantum_model_learning_agent.py, qmla/database_framework.py).     *)
(*                                                                         *)
(* The agent object, the redis databases and the rq job queue are kept in  *)
(* one record each; every method of the agent is an operator from such a   *)
(* world record W = [qmla, rds, rq] to the world it leaves behind.         *)
(***************************************************************************)
EXTENDS Integers, Sequences, FiniteSets, TLC

VARIABLES
    qmla,             \* fields of the QuantumModelLearningAgent instance
    redis_databases,  \* the redis databases shared with the workers
    rq_queue,         \* learn / compare jobs enqueued and not yet finished
    pc,               \* position of the orchestrator in its run method
    ctx,              \* local variables of the method the orchestrator is in
    hist              \* history of calls and dispatches (not program state)

vars == <<qmla, redis_databases, rq_queue, pc, ctx, hist>>

(***************************************************************************)
(* Bounds of the model                                                     *)
(***************************************************************************)
MaxAddCalls == 3      \* direct registry calls made in the registry specification
MaxSpawnDepth == 1    \* spawn step at which the growth rules report completion
MaxNewModels == 2     \* largest list a growth rule proposes for one generation
MaxRecompute == 1     \* forced recompute rounds explored in one tie-break
MaxEvaluations == 2   \* calls of compare_all_models_in_branch on one branch in the
                      \* tournament specification

(***************************************************************************)
(* Generic helpers                                                         *)
(***************************************************************************)
Put(f, k, v) == (k :> v) @@ f

Range(s) == {s[i] : i \in DOMAIN s}

Contains(s, e) == \E i \in DOMAIN s : s[i] = e

\* list(set(l)): the elements of l once each, in an order the code does not fix
Orderings(S) ==
    {s \in [1..Cardinality(S) -> S] : \A i, j \in 1..Cardinality(S) : i # j => s[i] # s[j]}

RECURSIVE Factorial(_)
Factorial(n) == IF n <= 1 THEN 1 ELSE n * Factorial(n - 1)

(***************************************************************************)
(* Model names.  A name is the list of its terms and a term the list of    *)
(* its letters: "xPy" is <<<<"x">>, <<"y">>>>, "xTy" is <<<<"x", "y">>>>,  *)
(* "xTyPPyTx" is <<<<"x", "y">>, <<"y", "x">>>>.                           *)
(***************************************************************************)
n_x == <<<<"x">>>>
n_y == <<<<"y">>>>
n_z == <<<<"z">>>>
n_xPy == <<<<"x">>, <<"y">>>>
n_yPx == <<<<"y">>, <<"x">>>>
n_xTy == <<<<"x", "y">>>>

RawNames == {n_x, n_y, n_xPy, n_yPx, n_xTy}

\* the character order python's sorted() compares letters by
ord == [c \in {"x", "y", "z"} |-> CASE c = "x" -> 120 [] c = "y" -> 121 [] c = "z" -> 122]

RECURSIVE LexLess(_, _)
LexLess(s, t) ==
    IF s = <<>> THEN t # <<>>
    ELSE IF t = <<>> THEN FALSE
    ELSE IF Head(s) # Head(t) THEN ord[Head(s)] < ord[Head(t)]
    ELSE LexLess(Tail(s), Tail(t))

\* database_framework.alph: split at the top-level separator, sort the parts
alph(name) == SortSeq(name, LexLess)

RECURSIVE MaxLen(_)
MaxLen(terms) ==
    IF terms = <<>> THEN 0
    ELSE LET r == MaxLen(Tail(terms))
         IN IF Len(Head(terms)) > r THEN Len(Head(terms)) ELSE r

\* database_framework.get_num_qubits: longest run of 'T' in the name, plus one
get_num_qubits(name) == MaxLen(name)

Max_N_Qubits == 13

\* database_framework.unique_model_pair_identifier: "lower,higher"
unique_model_pair_identifier(model_a_id, model_b_id) ==
    IF model_a_id <= model_b_id THEN <<model_a_id, model_b_id>>
    ELSE <<model_b_id, model_a_id>>

\* num_pairs_in_list: nC2 as (n!/2!)/(n-2)!
num_pairs_in_list(num_models) ==
    IF num_models <= 1 THEN 0
    ELSE (Factorial(num_models) \div Factorial(2)) \div Factorial(num_models - 2)

(***************************************************************************)
(* The world an agent method runs in, and the exception it may leave       *)
(***************************************************************************)
EmptyMap == [k \in {} |-> 0]

World(q, r, j, h) == [qmla |-> q, rds |-> r, rq |-> j, hist |-> h, exc |-> "none"]

Raise(W, e) == IF W.exc = "none" THEN [W EXCEPT !.exc = e] ELSE W

(***************************************************************************)
(* Model database (database_framework.py, database_launch)                 *)
(***************************************************************************)
\* rows of db whose '<Name>' column is name
RowsNamed(db, name) == {i \in DOMAIN db : db[i].Name = name}

\* rows of db whose 'ModelID' column is model_id
RowsWithId(db, model_id) == {i \in DOMAIN db : db[i].ModelID = model_id}

\* consider_new_model looking in the list of the wrong qubit count
consider_new_model_wrong_bucket(model_lists, name) ==
    IF Contains(model_lists[get_num_qubits(name) + 1], alph(name))
    THEN "Previously Considered" ELSE "New"

consider_new_model(model_lists, name) ==
    LET al_name == alph(name)
        n_qub == get_num_qubits(name)
    IN IF Contains(model_lists[n_qub], al_name)
       THEN "Previously Considered" ELSE "New"

check_model_exists(model_name, model_lists) ==
    consider_new_model(model_lists, model_name) # "New"

\* db.loc[db['ModelID'] == model_id].index[0]
index_from_model_id(db, model_id) ==
    CHOOSE i \in RowsWithId(db, model_id) : \A k \in RowsWithId(db, model_id) : i <= k

\* database_launch.add_model: a row for a name not considered before
add_model(q, model_name, modelID, branchID) ==
    LET name == alph(model_name)
        n_qub == get_num_qubits(name)
    IN IF consider_new_model(q.model_lists, name) = "New"
       THEN [q |-> [q EXCEPT !.model_lists[n_qub] = Append(@, name),
                             !.db = Append(@, [Name |-> name,
                                               ModelID |-> modelID,
                                               Status |-> "Ready",
                                               Completed |-> FALSE,
                                               branchID |-> branchID,
                                               BayesFactors |-> EmptyMap])],
             ret |-> TRUE]
       ELSE [q |-> q, ret |-> FALSE]

\* database_launch.launch_db: one row per initial model, with the id and the
\* branch _setup_all_growth_rules gave it
RECURSIVE launch_db(_, _)
launch_db(q, gen_list) ==
    IF gen_list = <<>> THEN q
    ELSE LET name == alph(Head(gen_list))
         IN launch_db(add_model(q, name, q.InitialModelIDs[name],
                                q.InitialModelBranches[name]).q,
                      Tail(gen_list))

\* update_field: db.loc[db['<Name>'] == name, field] = new_value
update_status_by_name(db, name, new_value) ==
    [i \in DOMAIN db |-> IF db[i].Name = name THEN [db[i] EXCEPT !.Status = new_value] ELSE db[i]]

update_status_by_id(db, model_id, new_value) ==
    [i \in DOMAIN db |-> IF db[i].ModelID = model_id THEN [db[i] EXCEPT !.Status = new_value] ELSE db[i]]

update_completed_by_name(db, name, new_value) ==
    [i \in DOMAIN db |-> IF db[i].Name = name THEN [db[i] EXCEPT !.Completed = new_value] ELSE db[i]]

\* db[db['Status'] == 'Active']['ModelID'], in row order
RECURSIVE all_active_model_ids(_)
all_active_model_ids(db) ==
    IF db = <<>> THEN <<>>
    ELSE IF Head(db).Status = "Active"
         THEN <<Head(db).ModelID>> \o all_active_model_ids(Tail(db))
         ELSE all_active_model_ids(Tail(db))

(***************************************************************************)
(* Construction of the agent                                               *)
(***************************************************************************)
\* the generators of a run; branch i is the initial branch of generator i + 1
growth_rules_list == <<"gr_A", "gr_B">>

\* _fundamental_settings: the redis databases of this run
databases_from_qmd_id ==
    [any_job_failed |-> FALSE,
     active_branches_learning_models |-> EmptyMap,
     active_branches_bayes |-> EmptyMap,
     bayes_factors_db |-> EmptyMap,
     learned_models_info |-> {}]

\* _setup_parallel_requirements: the empty job queue
rq_Queue == [learn |-> {}, bayes |-> {}]

\* the attributes _setup_tree_and_growth_rules creates
_setup_tree_and_growth_rules(generator_list) ==
    [growth_rules_list |-> generator_list,
     growth_rules_initial_models |-> EmptyMap,
     bayes_factor_pair_computed |-> <<>>,
     model_name_id_map |-> EmptyMap,
     HighestModelID |-> 0,
     NumModels |-> 0,
     spawn_depthByGrowthRule |-> EmptyMap,
     spawn_depth |-> 0,
     branch_bayes_points |-> EmptyMap,
     branch_rankings |-> EmptyMap,
     branch_parents |-> EmptyMap,
     BranchChampions |-> EmptyMap,
     ActiveBranchChampList |-> <<>>,
     HighestBranchID |-> 0,
     NumModelsPerBranch |-> EmptyMap,
     NumModelPairsPerBranch |-> EmptyMap,
     BranchAllModelsLearned |-> EmptyMap,
     BranchComparisonsComplete |-> EmptyMap,
     BranchNumModelsPreComputed |-> EmptyMap,
     BranchBayesComputed |-> EmptyMap,
     BranchModels |-> EmptyMap,
     ModelsBranches |-> EmptyMap,
     BranchPrecomputedModels |-> EmptyMap,
     BranchModelIds |-> EmptyMap,
     Branchget_growth_rule |-> EmptyMap,
     TreesCompleted |-> EmptyMap,
     InitialOpsAllBranches |-> <<>>,
     InitialModelBranches |-> EmptyMap,
     InitialModelIDs |-> EmptyMap,
     ghost_branch_list |-> <<>>,
     NumTrees |-> 0,
     NumTreesCompleted |-> 0,
     FinalTrees |-> <<>>,
     SurvivingChampions |-> <<>>,
     ranked_champions |-> <<>>,
     ChampID |-> {},
     db |-> <<>>,
     model_lists |-> [j \in 1..(Max_N_Qubits - 1) |-> <<>>]]

\* every initial model gets the next id, seen before or not
RECURSIVE setup_initial_models_all_new(_, _, _)
setup_initial_models_all_new(L, mods, i) ==
    IF mods = <<>> THEN L
    ELSE LET mod == alph(Head(mods))
         IN setup_initial_models_all_new(
                [L EXCEPT !.q = [L.q EXCEPT
                                    !.BranchModels[i] = Append(@, mod),
                                    !.ModelsBranches = Put(@, L.initial_id_counter, i),
                                    !.HighestBranchID = i,
                                    !.BranchModelIds[i] = Append(@, L.initial_id_counter),
                                    !.InitialModelIDs = Put(@, mod, L.initial_id_counter),
                                    !.InitialModelBranches = Put(@, mod, i)],
                          !.models_already_added_to_a_branch = Append(@, mod),
                          !.initial_id_counter = @ + 1],
                Tail(mods), i)

\* lines 264-295: the initial models of branch i, one after the other
RECURSIVE setup_initial_models(_, _, _)
setup_initial_models(L, mods, i) ==
    IF mods = <<>> THEN L
    ELSE LET mod == alph(Head(mods))
             q0 == [L.q EXCEPT !.BranchModels[i] = Append(@, mod),
                               !.ModelsBranches = Put(@, L.initial_id_counter, i),
                               !.HighestBranchID = i]
             L1 == IF Contains(L.models_already_added_to_a_branch, mod)
                   THEN [L EXCEPT !.q =
                            [q0 EXCEPT !.BranchModelIds[i] = Append(@, q0.InitialModelIDs[mod]),
                                       !.BranchPrecomputedModels[i] = Append(@, mod),
                                       !.BranchNumModelsPreComputed[i] = @ + 1]]
                   ELSE [L EXCEPT !.q =
                            [q0 EXCEPT !.BranchModelIds[i] = Append(@, L.initial_id_counter),
                                       !.InitialModelIDs = Put(@, mod, L.initial_id_counter),
                                       !.InitialModelBranches = Put(@, mod, i)],
                                  !.models_already_added_to_a_branch = Append(@, mod),
                                  !.initial_id_counter = @ + 1]
         IN setup_initial_models(L1, Tail(mods), i)

\* lines 234-317: one generator after the other; initial_models[gen] is the
\* initial_models attribute of the growth class of gen
RECURSIVE setup_growth_rule(_, _, _)
setup_growth_rule(L, initial_models, i) ==
    IF i >= Len(L.q.growth_rules_list) THEN L
    ELSE LET gen == L.q.growth_rules_list[i + 1]
             initial_models_this_gen == initial_models[gen]
             q0 == [L.q EXCEPT !.TreesCompleted = Put(@, gen, FALSE),
                               !.growth_rules_initial_models = Put(@, gen, initial_models_this_gen),
                               !.InitialOpsAllBranches = @ \o initial_models_this_gen,
                               !.BranchModelIds = Put(@, i, <<>>),
                               !.BranchModels = Put(@, i, <<>>),
                               !.BranchPrecomputedModels = Put(@, i, <<>>),
                               !.BranchNumModelsPreComputed = Put(@, i, 0)]
             L1 == setup_initial_models([L EXCEPT !.q = q0], initial_models_this_gen, i)
             q1 == [L1.q EXCEPT !.BranchBayesComputed = Put(@, i, FALSE),
                                !.BranchAllModelsLearned = Put(@, i, FALSE),
                                !.BranchComparisonsComplete = Put(@, i, FALSE),
                                !.NumModelsPerBranch = Put(@, i, Len(initial_models_this_gen)),
                                !.NumModelPairsPerBranch =
                                    Put(@, i, num_pairs_in_list(Len(initial_models_this_gen))),
                                !.spawn_depthByGrowthRule = Put(@, gen, 0),
                                !.Branchget_growth_rule = Put(@, i, gen)]
         IN setup_growth_rule([L1 EXCEPT !.q = q1], initial_models, i + 1)

MaxOf(S) == CHOOSE m \in S : \A k \in S : k <= m

_setup_all_growth_rules(q, initial_models) ==
    LET L == setup_growth_rule([q |-> q, initial_id_counter |-> 0,
                                models_already_added_to_a_branch |-> <<>>],
                               initial_models, 0)
        ids == {L.q.InitialModelIDs[m] : m \in DOMAIN L.q.InitialModelIDs}
    IN [L.q EXCEPT !.HighestModelID = MaxOf(ids) + 1,
                   !.NumModels = Cardinality(DOMAIN L.q.InitialModelIDs),
                   !.NumTrees = Len(L.q.growth_rules_list),
                   !.NumTreesCompleted =
                       Cardinality({g \in DOMAIN L.q.TreesCompleted : L.q.TreesCompleted[g]})]

_initiate_database(q) ==
    LET q1 == launch_db(q, q.InitialOpsAllBranches)
    IN [q1 EXCEPT !.model_name_id_map =
           [id \in {q.InitialModelIDs[m] : m \in DOMAIN q.InitialModelIDs} |->
               CHOOSE m \in DOMAIN q.InitialModelIDs : q.InitialModelIDs[m] = id]]

\* QuantumModelLearningAgent.__init__
QuantumModelLearningAgent(generator_list, initial_models) ==
    _initiate_database(
        _setup_all_growth_rules(_setup_tree_and_growth_rules(generator_list), initial_models))

(***************************************************************************)
(* Registry and branch management                                          *)
(***************************************************************************)
\* database_framework.model_id_from_name: .item() of the rows named alph(name)
model_id_from_name(db, name) ==
    LET rows == RowsNamed(db, alph(name))
    IN IF Cardinality(rows) = 1
       THEN [ok |-> TRUE, id |-> db[CHOOSE i \in rows : TRUE].ModelID]
       ELSE [ok |-> FALSE, id |-> 0]

\* the new model takes the id HighestModelID, and NumModels is not counted up
add_model_output_highest_id(W, model, tryAddModel, found) ==
    IF tryAddModel.ret
    THEN [w |-> [W EXCEPT !.qmla = [tryAddModel.q EXCEPT
                                       !.HighestModelID = @ + 1,
                                       !.model_name_id_map =
                                           Put(@, W.qmla.HighestModelID, alph(model))],
                          !.hist.add_log = Append(@, [model |-> model, is_new_model |-> TRUE,
                                                      model_id |-> W.qmla.HighestModelID])],
          ret |-> [is_new_model |-> TRUE, model_id |-> W.qmla.HighestModelID]]
    ELSE IF ~found.ok
    THEN [w |-> Raise(W, "ValueError"), ret |-> [is_new_model |-> FALSE, model_id |-> 0]]
    ELSE [w |-> [W EXCEPT !.hist.add_log = Append(@, [model |-> model, is_new_model |-> FALSE,
                                                      model_id |-> found.id])],
          ret |-> [is_new_model |-> FALSE, model_id |-> found.id]]

\* lines 699-730 of add_model_to_database, tryAddModel being what add_model
\* returned and found the row of the name
add_model_output(W, model, tryAddModel, found) ==
    IF tryAddModel.ret
    THEN [w |-> [W EXCEPT !.qmla = [tryAddModel.q EXCEPT
                                       !.HighestModelID = @ + 1,
                                       !.model_name_id_map = Put(@, W.qmla.NumModels, alph(model)),
                                       !.NumModels = @ + 1],
                          !.hist.add_log = Append(@, [model |-> model, is_new_model |-> TRUE,
                                                      model_id |-> W.qmla.NumModels])],
          ret |-> [is_new_model |-> TRUE, model_id |-> W.qmla.NumModels]]
    ELSE IF ~found.ok
    THEN [w |-> Raise(W, "ValueError"), ret |-> [is_new_model |-> FALSE, model_id |-> 0]]
    ELSE [w |-> [W EXCEPT !.hist.add_log = Append(@, [model |-> model, is_new_model |-> FALSE,
                                                      model_id |-> found.id])],
          ret |-> [is_new_model |-> FALSE, model_id |-> found.id]]

add_model_to_database(W, model, branchID) ==
    add_model_output(W, model,
                     add_model(W.qmla, alph(model), W.qmla.NumModels, branchID),
                     model_id_from_name(W.qmla.db, alph(model)))

\* lines 783-800 of new_branch, added being what add_model_to_database returned
new_branch_model(L, model, branchID, added) ==
    IF added.w.exc # "none" THEN [L EXCEPT !.w = added.w]
    ELSE [w |-> IF ~added.ret.is_new_model THEN added.w
                ELSE [added.w EXCEPT !.qmla.ModelsBranches =
                                         Put(@, added.ret.model_id, branchID)],
          model_id_list |-> Append(L.model_id_list, added.ret.model_id),
          num_models_already_computed_this_branch |->
              L.num_models_already_computed_this_branch
              + (IF ~added.ret.is_new_model THEN 1 ELSE 0),
          pre_computed_models |->
              IF ~added.ret.is_new_model THEN Append(L.pre_computed_models, model)
              ELSE L.pre_computed_models]

\* lines 774-800 of new_branch: the models of the list, one after the other
RECURSIVE new_branch_models(_, _, _)
new_branch_models(L, model_list, branchID) ==
    IF model_list = <<>> \/ L.w.exc # "none" THEN L
    ELSE new_branch_models(
             new_branch_model(L, Head(model_list), branchID,
                              add_model_to_database(L.w, Head(model_list), branchID)),
             Tail(model_list), branchID)

\* the lists list(set(model_list)) can be: python fixes no order of a set
list_of_set(model_list) == Orderings(Range(model_list))

\* lines 746-772 of new_branch
new_branch_record(W, growth_rule, model_list, branchID) ==
    [W EXCEPT !.qmla.HighestBranchID = branchID,
              !.qmla.BranchBayesComputed = Put(@, branchID, FALSE),
              !.qmla.NumModelsPerBranch = Put(@, branchID, Len(model_list)),
              !.qmla.NumModelPairsPerBranch = Put(@, branchID, num_pairs_in_list(Len(model_list))),
              !.qmla.BranchAllModelsLearned = Put(@, branchID, FALSE),
              !.qmla.BranchComparisonsComplete = Put(@, branchID, FALSE),
              !.qmla.Branchget_growth_rule = Put(@, branchID, growth_rule)]

\* lines 801-815 of new_branch, L being what the loop over the models left
new_branch_lists(L, model_list, branchID) ==
    IF L.w.exc # "none" THEN [w |-> L.w, ret |-> branchID]
    ELSE [w |-> [L.w EXCEPT
                   !.qmla.BranchNumModelsPreComputed =
                       Put(@, branchID, L.num_models_already_computed_this_branch),
                   !.qmla.BranchModels = Put(@, branchID, model_list),
                   !.qmla.BranchPrecomputedModels = Put(@, branchID, L.pre_computed_models),
                   !.qmla.BranchModelIds = Put(@, branchID, L.model_id_list)],
          ret |-> branchID]

\* the new branch takes the highest id there is, not the next one
new_branch_same_id(W, growth_rule, model_list) ==
    new_branch_lists(
        new_branch_models([w |-> new_branch_record(W, growth_rule, model_list,
                                                   W.qmla.HighestBranchID),
                           model_id_list |-> <<>>,
                           num_models_already_computed_this_branch |-> 0,
                           pre_computed_models |-> <<>>],
                          model_list, W.qmla.HighestBranchID),
        model_list, W.qmla.HighestBranchID)

\* new_branch; model_list is the list line 743 made of the caller's list
new_branch(W, growth_rule, model_list) ==
    new_branch_lists(
        new_branch_models([w |-> new_branch_record(W, growth_rule, model_list,
                                                   W.qmla.HighestBranchID + 1),
                           model_id_list |-> <<>>,
                           num_models_already_computed_this_branch |-> 0,
                           pre_computed_models |-> <<>>],
                          model_list, W.qmla.HighestBranchID + 1),
        model_list, W.qmla.HighestBranchID + 1)

(***************************************************************************)
(* State, and the step that leaves a world behind                          *)
(***************************************************************************)
Cur == World(qmla, redis_databases, rq_queue, hist)

NoCtx == [at |-> "none"]

\* add_log: the calls of add_model_to_database; learn_dispatched and
\* bayes_dispatched: the jobs enqueued; events: what happened to which branch;
\* tiebreaks: the recompute rounds; failed_at: the highest branch id there was
\* when the failure flag was raised; champs_before: the active champions the
\* parental collapse started with; collapse: the parent/child ratios it read;
\* spawned: the branches spawn_from_branch made and what the growth rule
\* answered about its tree; reduction: the champion, the reduced model and
\* the ratio check_champion_reducibility read; missing_read: the pairs a
\* tournament read from the store when the store did not hold them, with the
\* number of Comparator jobs enqueued until then
HistInit ==
    [add_log |-> <<>>, learn_dispatched |-> <<>>, bayes_dispatched |-> <<>>,
     events |-> <<>>, tiebreaks |-> <<>>, failed_at |-> {}, replaced |-> FALSE,
     champs_before |-> <<>>, collapse |-> <<>>, spawned |-> <<>>, reduction |-> <<>>,
     missing_read |-> {}]

\* an exception ends the run: NameError is the abort on a remote failure,
\* anything else a crash of the orchestrator
Commit(W, next_pc, next_ctx) ==
    /\ qmla' = W.qmla
    /\ redis_databases' = W.rds
    /\ rq_queue' = W.rq
    /\ hist' = W.hist
    /\ pc' = IF W.exc = "none" THEN next_pc
             ELSE IF W.exc = "NameError" THEN "aborted" ELSE "crashed"
    /\ ctx' = IF W.exc = "none" THEN next_ctx ELSE [at |-> W.exc]

\* initial_models attributes the growth classes of the two generators can have
InitialModelsOf_A == {<<n_x>>, <<n_x, n_y>>, <<n_yPx, n_xPy>>}
InitialModelsOf_B == {<<n_y>>, <<n_xTy>>, <<n_x, n_xPy>>}

InitWith(generator_list, initial_models, start) ==
    /\ qmla = QuantumModelLearningAgent(generator_list, initial_models)
    /\ redis_databases = databases_from_qmd_id
    /\ rq_queue = rq_Queue
    /\ hist = HistInit
    /\ pc = start
    /\ ctx = NoCtx

(***************************************************************************)
(* Registry specification: the calls that register models, in any order    *)
(***************************************************************************)
InitRegistry ==
    \E a \in InitialModelsOf_A, b \in InitialModelsOf_B :
        InitWith(growth_rules_list, [g \in {"gr_A", "gr_B"} |-> IF g = "gr_A" THEN a ELSE b],
                 "registry")

\* a single call of add_model_to_database (as line 2347 makes)
RegistryAdd ==
    /\ pc = "registry"
    /\ Len(hist.add_log) < MaxAddCalls
    /\ \E model \in RawNames :
          Commit(add_model_to_database(Cur, model, 0).w, "registry", NoCtx)

\* new_branch on a list of names as they come (lines 2485, 2640)
RegistryNewBranch ==
    /\ pc = "registry"
    /\ Len(hist.add_log) < MaxAddCalls
    /\ \E m1 \in RawNames, m2 \in RawNames :
          \E model_list \in list_of_set(<<m1, m2>>) :
              Commit(new_branch(Cur, qmla.growth_rules_list[1], model_list).w, "registry", NoCtx)

NextRegistry == RegistryAdd \/ RegistryNewBranch

SpecRegistry == InitRegistry /\ [][NextRegistry]_vars

(***************************************************************************)
(* Evidence ratios: a ratio is <<numerator, denominator>>                  *)
(***************************************************************************)
BayesLower == 5

interbranch_collapse_threshold == 100000

\* the ratios a Comparator job reports in this model
BayesFactorValues == {<<1, 10>>, <<2, 1>>, <<10, 1>>}

\* 1.0 / bayes_factor
Reciprocal(bayes_factor) == <<bayes_factor[2], bayes_factor[1]>>

\* bayes_factor > threshold: numerator > threshold * denominator, written
\* with a division so that no product leaves the range of the integers
Exceeds(bayes_factor, threshold) ==
    bayes_factor[2] < (bayes_factor[1] + threshold - 1) \div threshold

\* bayes_factor < 1.0 / threshold: numerator * threshold < denominator
Below(bayes_factor, threshold) ==
    bayes_factor[1] < (bayes_factor[2] + threshold - 1) \div threshold

(***************************************************************************)
(* Learning and comparison jobs                                            *)
(***************************************************************************)
\* the job learn_model enqueues for the model found under the name
learn_model_job(W, found) ==
    IF ~found.ok THEN Raise(W, "ValueError")
    ELSE IF found.id \notin DOMAIN W.qmla.ModelsBranches THEN Raise(W, "KeyError")
    ELSE [W EXCEPT !.rq.learn = @ \cup {[model_id |-> found.id,
                                         branchID |-> W.qmla.ModelsBranches[found.id]]},
                   !.hist.learn_dispatched =
                       Append(@, [model_id |-> found.id,
                                  branchID |-> W.qmla.ModelsBranches[found.id]])]

\* learn_model: enqueue learnModelRemote for a model that exists
learn_model(W, model_name) ==
    IF ~check_model_exists(model_name, W.qmla.model_lists) THEN W
    ELSE learn_model_job(W, model_id_from_name(W.qmla.db, model_name))

\* lines 939-944: the model is marked completed as soon as its job is enqueued
mark_completed(W, model_name) ==
    IF W.exc # "none" THEN W
    ELSE [W EXCEPT !.qmla.db = update_completed_by_name(@, model_name, TRUE)]

\* lines 921-944 of learn_models_on_given_branch
RECURSIVE learn_unlearned_models(_, _)
learn_unlearned_model(W, model_name, names) ==
    learn_unlearned_models(mark_completed(learn_model(W, model_name), model_name),
                           names \ {model_name})

learn_unlearned_models(W, names) ==
    IF names = {} \/ W.exc # "none" THEN W
    ELSE learn_unlearned_model(W, CHOOSE n \in names : TRUE, names)

learn_models_on_given_branch(W, branchID) ==
    LET model_list == W.qmla.BranchModels[branchID]
        num_models_already_set_this_branch == W.qmla.BranchNumModelsPreComputed[branchID]
        unlearned_models_this_branch ==
            Range(model_list) \ Range(W.qmla.BranchPrecomputedModels[branchID])
        W1 == [W EXCEPT !.rds.active_branches_learning_models =
                            Put(@, branchID, num_models_already_set_this_branch),
                        !.hist.events = Append(@, [ev |-> "Dispatched", branch |-> branchID]),
                        !.qmla.ghost_branch_list =
                            IF unlearned_models_this_branch = {} THEN Append(@, branchID) ELSE @]
    IN learn_unlearned_models(W1, unlearned_models_this_branch)

\* get_pairwise_bayes_factor without wait_on_result: enqueue BayesFactorRemote
get_pairwise_bayes_factor(W, model_a_id, model_b_id, branchID, interbranch) ==
    LET unique_id == unique_model_pair_identifier(model_a_id, model_b_id)
    IN [W EXCEPT !.qmla.bayes_factor_pair_computed =
                     IF Contains(@, unique_id) THEN @ ELSE Append(@, unique_id),
                 !.rq.bayes = @ \cup {[pair |-> unique_id, branchID |-> branchID,
                                       interbranch |-> interbranch]},
                 !.hist.bayes_dispatched = Append(@, [pair |-> unique_id,
                                                      branchID |-> branchID,
                                                      interbranch |-> interbranch,
                                                      learned |-> W.rds.learned_models_info])]

\* the index pairs (i, j), j >= i, of the double loops over a model id list
RECURSIVE IndexPairsFrom(_, _, _)
IndexPairsFrom(i, j, n) ==
    IF i > n THEN <<>>
    ELSE IF j > n THEN IndexPairsFrom(i + 1, i + 1, n)
    ELSE <<<<i, j>>>> \o IndexPairsFrom(i, j + 1, n)

IndexPairs(n) == IndexPairsFrom(1, 1, n)

\* lines 1229-1261: the pairs of the branch, one after the other
RECURSIVE bayes_factors_of_pairs(_, _, _, _)
bayes_factors_of_pairs(W, model_id_list, ijs, branchID) ==
    IF ijs = <<>> THEN W
    ELSE LET a == model_id_list[Head(ijs)[1]]
             b == model_id_list[Head(ijs)[2]]
             unique_id == unique_model_pair_identifier(a, b)
             W1 == IF a = b THEN W
                   ELSE IF ~Contains(W.qmla.bayes_factor_pair_computed, unique_id)
                   THEN get_pairwise_bayes_factor(W, a, b, branchID, FALSE)
                   ELSE [W EXCEPT !.rds.active_branches_bayes[branchID] = @ + 1]
         IN bayes_factors_of_pairs(W1, model_id_list, Tail(ijs), branchID)

get_bayes_factors_by_branch_id(W, branchID) ==
    LET model_id_list == W.qmla.BranchModelIds[branchID]
        W1 == [W EXCEPT !.rds.active_branches_bayes = Put(@, branchID, 0)]
    IN bayes_factors_of_pairs(W1, model_id_list, IndexPairs(Len(model_id_list)), branchID)

(***************************************************************************)
(* Tournaments                                                             *)
(***************************************************************************)
\* the BayesFactors dictionary of the model with id model_id gets value
\* appended to its list for other_id
record_bayes_factor(db, model_id, other_id, value) ==
    LET row == index_from_model_id(db, model_id)
        old == IF other_id \in DOMAIN db[row].BayesFactors
               THEN db[row].BayesFactors[other_id] ELSE <<>>
    IN [db EXCEPT ![row].BayesFactors = Put(@, other_id, Append(old, value))]

\* processRemoteBayesPair: the stored ratio of the pair goes to both caches;
\* champ is bound only when the ratio is decisive, and so is bayes_factor
\* only when the store holds the pair
processRemoteBayesPair(W, a, b) ==
    LET pair == unique_model_pair_identifier(a, b)
        lower_id == pair[1]
        higher_id == pair[2]
    IN IF pair \notin DOMAIN W.rds.bayes_factors_db
          \/ RowsWithId(W.qmla.db, lower_id) = {} \/ RowsWithId(W.qmla.db, higher_id) = {}
       THEN [w |-> Raise([W EXCEPT !.hist.missing_read =
                                 IF pair \in DOMAIN W.rds.bayes_factors_db THEN @
                                 ELSE @ \cup {[pair |-> pair,
                                               at |-> Len(W.hist.bayes_dispatched)]}],
                         "UnboundLocalError"),
             ret |-> lower_id]
       ELSE LET bayes_factor == W.rds.bayes_factors_db[pair]
                db1 == record_bayes_factor(W.qmla.db, lower_id, higher_id, bayes_factor)
                db2 == record_bayes_factor(db1, higher_id, lower_id, Reciprocal(bayes_factor))
                W1 == [W EXCEPT !.qmla.db = db2]
            IN IF Exceeds(bayes_factor, BayesLower) THEN [w |-> W1, ret |-> lower_id]
               ELSE IF Below(bayes_factor, BayesLower) THEN [w |-> W1, ret |-> higher_id]
               ELSE [w |-> Raise(W1, "UnboundLocalError"), ret |-> lower_id]

\* the keys of a dict filled from a list, in insertion order
RECURSIVE Keys(_)
Keys(l) ==
    IF l = <<>> THEN <<>>
    ELSE LET front == Keys(SubSeq(l, 1, Len(l) - 1))
         IN IF Contains(front, l[Len(l)]) THEN front ELSE Append(front, l[Len(l)])

\* models_points[res] += 1, res being what processRemoteBayesPair returned
award_point(L, res) ==
    IF res.w.exc # "none" THEN [L EXCEPT !.w = res.w]
    ELSE [w |-> res.w, models_points |-> [L.models_points EXCEPT ![res.ret] = @ + 1]]

\* the double loop of compare_all_models_in_branch and compare_models_from_list
RECURSIVE award_points(_, _, _)
award_points(L, model_list, ijs) ==
    IF ijs = <<>> \/ L.w.exc # "none" THEN L
    ELSE IF model_list[Head(ijs)[1]] = model_list[Head(ijs)[2]]
    THEN award_points(L, model_list, Tail(ijs))
    ELSE award_points(award_point(L, processRemoteBayesPair(L.w, model_list[Head(ijs)[1]],
                                                            model_list[Head(ijs)[2]])),
                      model_list, Tail(ijs))

\* every model of the list, whatever its points
max_points_branches_all_models(L, model_list) ==
    [w |-> L.w, models_points |-> L.models_points,
     max_points_branches |-> IF L.w.exc # "none" THEN <<>> ELSE Keys(model_list)]

\* max_points and max_points_branches of the points the double loop left
max_points_branches(L, model_list) ==
    IF L.w.exc # "none"
    THEN [w |-> L.w, models_points |-> L.models_points, max_points_branches |-> <<>>]
    ELSE [w |-> L.w, models_points |-> L.models_points,
          max_points_branches |->
              SelectSeq(Keys(model_list),
                        LAMBDA key : L.models_points[key] = MaxOf(Range(L.models_points)))]

\* models_points after the double loop, and the models with max points
tournament_round(W, model_list) ==
    IF model_list = <<>>
    THEN [w |-> Raise(W, "ValueError"), models_points |-> EmptyMap, max_points_branches |-> <<>>]
    ELSE max_points_branches(
             award_points([w |-> W, models_points |-> [m \in Range(model_list) |-> 0]],
                          model_list, IndexPairs(Len(model_list))),
             model_list)

\* sorted(models_points, key=models_points.get, reverse=True): a stable sort
RECURSIVE sorted_by_points(_, _)
sorted_by_points(keys, models_points) ==
    IF keys = <<>> THEN <<>>
    ELSE LET top == CHOOSE i \in DOMAIN keys :
                        /\ \A k \in DOMAIN keys : models_points[keys[k]] <= models_points[keys[i]]
                        /\ \A k \in 1..(i - 1) : models_points[keys[k]] < models_points[keys[i]]
         IN <<keys[top]>> \o sorted_by_points(SubSeq(keys, 1, top - 1)
                                              \o SubSeq(keys, top + 1, Len(keys)), models_points)

\* the models of the branch keep their status
deactivate_none(db, model_ids) == db

RECURSIVE deactivate(_, _)
deactivate(db, model_ids) ==
    IF model_ids = <<>> THEN db
    ELSE deactivate(update_status_by_id(db, Head(model_ids), "Deactivated"), Tail(model_ids))

\* the ranking is written at every evaluation of the branch
crown_branch_champion_ranks_again(W, branchID, models_points, champ_id) ==
    IF champ_id \notin DOMAIN W.qmla.model_name_id_map THEN Raise(W, "KeyError")
    ELSE [W EXCEPT
            !.qmla.BranchChampions = Put(@, branchID, champ_id),
            !.qmla.ActiveBranchChampList =
                IF Contains(@, champ_id) THEN @ ELSE Append(@, champ_id),
            !.qmla.db = update_status_by_name(deactivate(@, W.qmla.BranchModelIds[branchID]),
                                              W.qmla.model_name_id_map[champ_id], "Active"),
            !.qmla.branch_rankings =
                Put(@, branchID, sorted_by_points(Keys(W.qmla.BranchModelIds[branchID]),
                                                  models_points)),
            !.qmla.BranchBayesComputed = Put(@, branchID, TRUE),
            !.qmla.branch_bayes_points = Put(@, branchID, models_points),
            !.hist.events = Append(@, [ev |-> "Compared", branch |-> branchID])]

\* lines 1416-1519 of compare_all_models_in_branch, once champ_id is known
crown_branch_champion(W, branchID, models_points, champ_id) ==
    LET active_models_in_branch == W.qmla.BranchModelIds[branchID]
        champ_name == W.qmla.model_name_id_map[champ_id]
        ghost == Contains(W.qmla.ghost_branch_list, branchID)
        losers == Range(active_models_in_branch) \ {champ_id}
        q == W.qmla
    IN IF champ_id \notin DOMAIN q.model_name_id_map THEN Raise(W, "KeyError")
       ELSE [W EXCEPT
               !.qmla.BranchChampions = Put(@, branchID, champ_id),
               !.qmla.ActiveBranchChampList =
                   LET l == IF Contains(@, champ_id) THEN @ ELSE Append(@, champ_id)
                   IN IF ghost THEN SelectSeq(l, LAMBDA m : m \notin losers) ELSE l,
               !.qmla.db = update_status_by_name(deactivate(@, active_models_in_branch),
                                                 champ_name, "Active"),
               !.qmla.branch_rankings =
                   IF q.BranchBayesComputed[branchID] THEN @
                   ELSE Put(@, branchID, sorted_by_points(Keys(active_models_in_branch),
                                                          models_points)),
               !.qmla.BranchBayesComputed = Put(@, branchID, TRUE),
               !.qmla.branch_bayes_points = Put(@, branchID, models_points),
               !.hist.events = Append(@, [ev |-> "Compared", branch |-> branchID])]

\* the pairs the double loop of get_bayes_factors_from_list visits
PairsOfList(model_id_list) ==
    {unique_model_pair_identifier(ab[1], ab[2]) :
        ab \in {ab \in Range(model_id_list) \X Range(model_id_list) : ab[1] # ab[2]}}

RECURSIVE enqueue_pairs(_, _)
enqueue_pairs(W, pairs) ==
    IF pairs = {} THEN W
    ELSE LET pair == CHOOSE p \in pairs : TRUE
         IN enqueue_pairs(get_pairwise_bayes_factor(W, pair[1], pair[2], 0, TRUE),
                          pairs \ {pair})

(***************************************************************************)
(* The workers (remote_model_learning, remote_bayes_factor)                *)
(***************************************************************************)
\* the branch is credited with two learned models for one job
learnModelRemote_credits_twice(W, job) ==
    [W EXCEPT !.rds.learned_models_info = @ \cup {job.model_id},
              !.rds.active_branches_learning_models =
                  Put(@, job.branchID,
                      (IF job.branchID \in DOMAIN @ THEN @[job.branchID] ELSE 0) + 2),
              !.rq.learn = @ \ {job}]

\* a Learner job ends: the result is stored and the branch of the model is
\* credited with one learned model
learnModelRemote(W, job) ==
    [W EXCEPT !.rds.learned_models_info = @ \cup {job.model_id},
              !.rds.active_branches_learning_models =
                  Put(@, job.branchID,
                      (IF job.branchID \in DOMAIN @ THEN @[job.branchID] ELSE 0) + 1),
              !.rq.learn = @ \ {job}]

\* a Comparator job ends: the ratio of (lower id, higher id) is stored and,
\* unless the job is interbranch, its branch is credited with one comparison
BayesFactorRemote(W, job, bayes_factor) ==
    [W EXCEPT !.rds.bayes_factors_db = Put(@, job.pair, bayes_factor),
              !.rds.active_branches_bayes =
                  IF job.interbranch THEN @
                  ELSE Put(@, job.branchID,
                           (IF job.branchID \in DOMAIN @ THEN @[job.branchID] ELSE 0) + 1),
              !.rq.bayes = @ \ {job}]

\* a job fails: the worker raises the failure flag
remote_job_failure(W) ==
    [W EXCEPT !.rds.any_job_failed = TRUE,
              !.hist.failed_at = IF @ = {} THEN {W.qmla.HighestBranchID} ELSE @]

\* what the jobs of a blocking call can come to: all finish, or one fails
JobOutcomes(pairs) ==
    {[failed |-> FALSE, bayes_factors |-> f] : f \in [pairs -> BayesFactorValues]}
    \cup {[failed |-> TRUE, bayes_factors |-> EmptyMap]}

RECURSIVE finish_jobs(_, _, _)
finish_jobs(W, pairs, bayes_factors) ==
    IF pairs = {} THEN W
    ELSE LET pair == CHOOSE p \in pairs : TRUE
         IN finish_jobs(BayesFactorRemote(W, [pair |-> pair, branchID |-> 0,
                                              interbranch |-> TRUE], bayes_factors[pair]),
                        pairs \ {pair}, bayes_factors)

\* the ratios a parent/child job reports in this model: beyond the collapse
\* threshold either way, at the threshold, and small
ParentChildFactorValues == {<<1, 1000000>>, <<2, 1>>, <<100000, 1>>, <<1000000, 1>>}

ParentChildOutcomes(pairs) ==
    {[failed |-> FALSE, bayes_factors |-> f] : f \in [pairs -> ParentChildFactorValues]}
    \cup {[failed |-> TRUE, bayes_factors |-> EmptyMap]}

\* get_bayes_factors_from_list(recompute=True, wait_on_result=True): every
\* pair of the list is enqueued again, and the call returns when the jobs
\* have finished, or raises when one has failed
get_bayes_factors_from_list(W, model_id_list, outcome) ==
    IF PairsOfList(model_id_list) # {} /\ outcome.failed
    THEN Raise(remote_job_failure(enqueue_pairs(W, PairsOfList(model_id_list))), "NameError")
    ELSE finish_jobs(enqueue_pairs(W, PairsOfList(model_id_list)),
                     PairsOfList(model_id_list), outcome.bayes_factors)

\* compare_models_from_list up to the point it has a champion or recomputes
compare_models_from_list(W, model_list) == tournament_round(W, model_list)

inspect_remote_job_crashes(W) ==
    IF W.rds.any_job_failed THEN Raise(W, "NameError") ELSE W

(***************************************************************************)
(* The growth rule                                                         *)
(***************************************************************************)
SpawnNames == {n_x, n_xPy, n_yPx}

\* the lists generate_models can return
GrowthProposals ==
    UNION {[1..n -> SpawnNames] : n \in 0..MaxNewModels}

\* the spawn depth at which a growth rule stops: gr_deep grows its tree one
\* generation further than the others
max_spawn_depth(growth_rule) ==
    IF growth_rule = "gr_deep" THEN MaxSpawnDepth + 1 ELSE MaxSpawnDepth

\* check_tree_completed of a growth rule that stops at a spawn depth
check_tree_completed(growth_rule, spawn_step) == spawn_step >= max_spawn_depth(growth_rule)

\* [alph(mod) for mod in new_models]
RECURSIVE alph_all(_)
alph_all(l) == IF l = <<>> THEN <<>> ELSE <<alph(Head(l))>> \o alph_all(Tail(l))

\* the parent recorded is the first seed branch, whatever branch spawned
spawn_learn_parent_first_seed(made, branchID, spawn_step) ==
    IF made.w.exc # "none" THEN [w |-> made.w, ret |-> FALSE]
    ELSE [w |-> learn_models_on_given_branch(
                    [made.w EXCEPT !.qmla.branch_parents = Put(@, made.ret, 0),
                                   !.hist.spawned =
                                       Append(@, [branch |-> branchID, new_branch |-> made.ret,
                                                  tree_completed |->
                                                      check_tree_completed(
                                                          made.w.qmla.Branchget_growth_rule[
                                                              branchID],
                                                          spawn_step)])],
                    made.ret),
          ret |-> check_tree_completed(made.w.qmla.Branchget_growth_rule[branchID],
                                       spawn_step)]

\* lines 2082-2116 of spawn_from_branch, made being what new_branch returned
spawn_learn(made, branchID, spawn_step) ==
    IF made.w.exc # "none" THEN [w |-> made.w, ret |-> FALSE]
    ELSE [w |-> learn_models_on_given_branch(
                    [made.w EXCEPT !.qmla.branch_parents = Put(@, made.ret, branchID),
                                   !.hist.spawned =
                                       Append(@, [branch |-> branchID, new_branch |-> made.ret,
                                                  tree_completed |->
                                                      check_tree_completed(
                                                          made.w.qmla.Branchget_growth_rule[
                                                              branchID],
                                                          spawn_step)])],
                    made.ret),
          ret |-> check_tree_completed(made.w.qmla.Branchget_growth_rule[branchID],
                                       spawn_step)]

\* spawn_from_branch after generate_models returned new_models: set_2 is
\* the list line 743 makes of the alph'd names of the list line 2063 made
spawn_from_branch(W, branchID, growth_rule, set_2) ==
    IF branchID \notin DOMAIN W.qmla.branch_rankings
    THEN [w |-> Raise([W EXCEPT !.hist.events =
                                    Append(@, [ev |-> "Spawned", branch |-> branchID])],
                      "KeyError"),
          ret |-> FALSE]
    ELSE spawn_learn(
             new_branch([W EXCEPT !.qmla.spawn_depthByGrowthRule[growth_rule] = @ + 1,
                                  !.qmla.spawn_depth = @ + 1,
                                  !.hist.events =
                                      Append(@, [ev |-> "Spawned", branch |-> branchID])],
                        growth_rule, set_2),
             branchID, W.qmla.spawn_depthByGrowthRule[growth_rule] + 1)

(***************************************************************************)
(* perform_final_bayes_comparisons                                         *)
(***************************************************************************)
\* lines 1622-1628, 1712-1715: the champion of the branch the home branch of
\* child_id was spawned from, if there is one
has_parent(q, child_id) ==
    /\ q.ModelsBranches[child_id] \in DOMAIN q.branch_parents
    /\ q.branch_parents[q.ModelsBranches[child_id]] \in DOMAIN q.BranchChampions

parent_of(q, child_id) == q.BranchChampions[q.branch_parents[q.ModelsBranches[child_id]]]

\* lines 1619-1643: the pairs whose jobs go to job_list
parent_child_pairs(q) ==
    {unique_model_pair_identifier(parent_of(q, child_id), child_id) :
        child_id \in {c \in Range(q.ActiveBranchChampList) :
                         /\ has_parent(q, c)
                         /\ Contains(q.ActiveBranchChampList, parent_of(q, c))}}

\* lines 1736-1787: the weaker of a decisive parent/child pair is deactivated
\* and the ratio goes to the caches of both
collapse_pair(L, mod1, mod2, bayes_factor) ==
    [w |-> [L.w EXCEPT !.qmla.db =
                record_bayes_factor(
                    record_bayes_factor(
                        IF Exceeds(bayes_factor, interbranch_collapse_threshold)
                        THEN update_status_by_id(@, mod2, "Deactivated")
                        ELSE IF Below(bayes_factor, interbranch_collapse_threshold)
                        THEN update_status_by_id(@, mod1, "Deactivated")
                        ELSE @,
                        mod1, mod2, bayes_factor),
                    mod2, mod1, Reciprocal(bayes_factor))],
     models_to_remove |->
         IF Exceeds(bayes_factor, interbranch_collapse_threshold)
         THEN L.models_to_remove \cup {mod2}
         ELSE IF Below(bayes_factor, interbranch_collapse_threshold)
         THEN L.models_to_remove \cup {mod1}
         ELSE L.models_to_remove]

\* lines 1711-1803: one child of the second loop over branch_champions
collapse_child(L, child_id, pair_id) ==
    IF ~has_parent(L.w.qmla, child_id) \/ pair_id \notin DOMAIN L.w.rds.bayes_factors_db
       \/ pair_id[1] = pair_id[2]
    THEN L
    ELSE collapse_pair(
             [L EXCEPT !.w.hist.collapse =
                 Append(@, [parent |-> parent_of(L.w.qmla, child_id), child |-> child_id,
                            bayes_factor |-> L.w.rds.bayes_factors_db[pair_id]])],
             pair_id[1], pair_id[2], L.w.rds.bayes_factors_db[pair_id])

RECURSIVE collapse_children(_, _)
collapse_children(L, branch_champions) ==
    IF branch_champions = <<>> THEN L
    ELSE collapse_children(
             collapse_child(L, Head(branch_champions),
                            IF has_parent(L.w.qmla, Head(branch_champions))
                            THEN unique_model_pair_identifier(
                                     parent_of(L.w.qmla, Head(branch_champions)),
                                     Head(branch_champions))
                            ELSE <<0, 0>>),
             Tail(branch_champions))

\* the list CPython makes of a set of small integers: ascending
RECURSIVE sorted_ids(_)
sorted_ids(S) ==
    IF S = {} THEN <<>>
    ELSE <<CHOOSE m \in S : \A k \in S : m <= k>>
         \o sorted_ids(S \ {CHOOSE m \in S : \A k \in S : m <= k})

\* the list of active champions is left as it was
remove_collapsed_keeps_all(L) == L.w

\* lines 1804-1807
remove_collapsed(L) ==
    [L.w EXCEPT !.qmla.ActiveBranchChampList = sorted_ids(Range(@) \ L.models_to_remove)]

\* lines 1708-1807
parental_collapse(W) ==
    remove_collapsed(
        collapse_children([w |-> [W EXCEPT !.hist.champs_before = W.qmla.ActiveBranchChampList],
                           models_to_remove |-> {}],
                          W.qmla.ActiveBranchChampList))

\* lines 1618-1807: the parent/child jobs are enqueued and waited for, then the
\* collapse is made
parent_child_comparisons(W, pairs, outcome) ==
    IF pairs # {} /\ outcome.failed
    THEN Raise(remote_job_failure(enqueue_pairs(W, pairs)), "NameError")
    ELSE parental_collapse(finish_jobs(enqueue_pairs(W, pairs), pairs, outcome.bayes_factors))

\* lines 1829-1846: the names of the active champions of the tree of gen
RECURSIVE tree_champion_names(_, _, _)
tree_champion_names(q, champs, gen) ==
    IF champs = <<>> THEN <<>>
    ELSE IF q.Branchget_growth_rule[q.ModelsBranches[Head(champs)]] = gen
    THEN <<q.model_name_id_map[Head(champs)]>> \o tree_champion_names(q, Tail(champs), gen)
    ELSE tree_champion_names(q, Tail(champs), gen)

\* lines 1852-1857, made being what new_branch returned
ghost_branch_launch(made) ==
    IF made.w.exc # "none" THEN made.w
    ELSE get_bayes_factors_by_branch_id(
             learn_models_on_given_branch(
                 [made.w EXCEPT !.qmla.FinalTrees = Append(@, made.ret),
                                !.qmla.BranchAllModelsLearned[made.ret] = TRUE,
                                !.hist.events =
                                    Append(@, [ev |-> "Learned", branch |-> made.ret])],
                 made.ret),
             made.ret)

\* lines 1937-1978 and 1989-2000: the points of the surviving champions, and
\* the round compare_models_from_list plays among those with max points
final_round(round) ==
    IF round.w.exc # "none" \/ Len(round.max_points_branches) <= 1 THEN round
    ELSE compare_models_from_list(round.w, round.max_points_branches)

\* sorted(branch_champions_points, reverse=True): the ids, descending
RECURSIVE sorted_reverse(_)
sorted_reverse(S) ==
    IF S = {} THEN <<>>
    ELSE <<MaxOf(S)>> \o sorted_reverse(S \ {MaxOf(S)})

\* lines 1916-1978
final_tournament(W, active_models, outcome) ==
    tournament_round(
        get_bayes_factors_from_list(
            [W EXCEPT !.qmla.SurvivingChampions = active_models,
                      !.qmla.ranked_champions = sorted_reverse(Range(active_models))],
            active_models, outcome),
        active_models)

\* lines 2007-2010 and 3003-3007: the champion of the run
crown_champion(W, champ_id) ==
    [W EXCEPT !.qmla.db = update_status_by_name(@, W.qmla.model_name_id_map[champ_id], "Active"),
              !.qmla.ChampID = {champ_id}]

(***************************************************************************)
(* check_champion_reducibility                                             *)
(***************************************************************************)
reduce_champ_bayes_factor_threshold == 5

\* the names lines 2331-2337 can build: some terms of the name, not all
ReducedNames(name) ==
    {alph([k \in 1..Cardinality(I) |-> name[sorted_ids(I)[k]]]) :
        I \in (SUBSET DOMAIN name) \ {{}, DOMAIN name}}

\* reduced.BayesFactors = original.BayesFactors
share_bayes_factors(db, reduced_mod_id, original_champ_id) ==
    [db EXCEPT ![index_from_model_id(db, reduced_mod_id)].BayesFactors =
                   db[index_from_model_id(db, original_champ_id)].BayesFactors]

\* lines 2435-2462: the reduced model replaces the champion
replace_champion(W, original_champ_id, reduced_mod_id, bayes_factor) ==
    IF Below(bayes_factor, reduce_champ_bayes_factor_threshold)
    THEN [W EXCEPT !.qmla.ChampID = {reduced_mod_id},
                   !.qmla.db = share_bayes_factors(@, reduced_mod_id, original_champ_id),
                   !.hist.replaced = TRUE]
    ELSE W

\* lines 2424-2428: the blocking comparison of champion and reduced model
compare_with_reduced(W, original_champ_id, reduced_mod_id, outcome) ==
    IF outcome.failed THEN Raise(remote_job_failure(W), "TypeError")
    ELSE replace_champion(
             finish_jobs([W EXCEPT !.hist.reduction =
                              Append(@, [champion |-> original_champ_id,
                                         reduced |-> reduced_mod_id,
                                         bayes_factor |->
                                             outcome.bayes_factors[
                                                 unique_model_pair_identifier(
                                                     original_champ_id, reduced_mod_id)]])],
                         {unique_model_pair_identifier(original_champ_id, reduced_mod_id)},
                         outcome.bayes_factors),
             original_champ_id, reduced_mod_id,
             outcome.bayes_factors[unique_model_pair_identifier(original_champ_id,
                                                                reduced_mod_id)])

\* lines 2347-2428, added being what add_model_to_database returned
reduced_champion(added, original_champ_id, outcome) ==
    IF added.w.exc # "none" THEN added.w
    ELSE compare_with_reduced(
             get_pairwise_bayes_factor(
                 [added.w EXCEPT !.rds.learned_models_info = @ \cup {added.ret.model_id}],
                 original_champ_id, added.ret.model_id, 0, TRUE),
             original_champ_id, added.ret.model_id, outcome)

\* check_champion_reducibility when some, not all, parameters are negligible
\* and new_mod is the name made of the others
check_champion_reducibility(W, original_champ_id, new_mod, outcome) ==
    reduced_champion(add_model_to_database(W, new_mod, 0), original_champ_id, outcome)

(***************************************************************************)
(* run_complete_qmla: seed branches, generation loop, drain loop           *)
(***************************************************************************)
Terminal == {"done", "aborted", "crashed"}

\* generators and initial models of the runs explored
RunConfigs ==
    {[generator_list |-> <<"gr_A">>, initial_models |-> [g \in {"gr_A"} |-> <<n_x, n_y>>]],
     [generator_list |-> <<"gr_deep">>, initial_models |-> [g \in {"gr_deep"} |-> <<n_x, n_y>>]],
     [generator_list |-> <<"gr_A">>, initial_models |-> [g \in {"gr_A"} |-> <<n_yPx, n_xPy>>]],
     [generator_list |-> <<"gr_A">>,
      initial_models |-> [g \in {"gr_A"} |-> <<n_x, n_y, n_xTy>>]],
     [generator_list |-> <<"gr_A">>,
      initial_models |-> [g \in {"gr_A"} |-> <<n_x, n_y, n_z, n_xTy>>]],
     [generator_list |-> <<"gr_A", "gr_B">>,
      initial_models |-> [g \in {"gr_A", "gr_B"} |-> IF g = "gr_A" THEN <<n_x>> ELSE <<n_y>>]]}

Init == \E c \in RunConfigs : InitWith(c.generator_list, c.initial_models, "start")

learning_finished(W, branchID) ==
    /\ branchID \in DOMAIN W.rds.active_branches_learning_models
    /\ W.rds.active_branches_learning_models[branchID] = W.qmla.NumModelsPerBranch[branchID]
    /\ ~W.qmla.BranchAllModelsLearned[branchID]

\* the test without the look at BranchComparisonsComplete
comparisons_finished_again(W, branchID) ==
    /\ branchID \in DOMAIN W.rds.active_branches_bayes
    /\ W.rds.active_branches_bayes[branchID] = W.qmla.NumModelPairsPerBranch[branchID]

comparisons_finished(W, branchID) ==
    /\ branchID \in DOMAIN W.rds.active_branches_bayes
    /\ W.rds.active_branches_bayes[branchID] = W.qmla.NumModelPairsPerBranch[branchID]
    /\ ~W.qmla.BranchComparisonsComplete[branchID]

\* lines 2892-2898, 2971-2972: the branch is marked and its pairs dispatched
all_models_learned(W, branchID) ==
    get_bayes_factors_by_branch_id(
        [W EXCEPT !.qmla.BranchAllModelsLearned[branchID] = TRUE,
                  !.hist.events = Append(@, [ev |-> "Learned", branch |-> branchID])],
        branchID)

RECURSIVE all_models_learned_on(_, _)
all_models_learned_on(W, branches) ==
    IF branches = <<>> THEN W
    ELSE all_models_learned_on(all_models_learned(W, Head(branches)), Tail(branches))

\* lines 2798-2845
Start ==
    /\ pc = "start"
    /\ IF qmla.NumTrees > 1
       THEN Commit(learn_models_on_given_branch(Cur, 0), "seed_learning", [at |-> "seed", i |-> 0])
       ELSE Commit(learn_models_on_given_branch(Cur, 0), "generation", NoCtx)

\* the seed branch is marked without the wait for its models
SeedLearned_without_wait ==
    /\ pc = "seed_learning"
    /\ Commit(all_models_learned(Cur, ctx.i), "seed_comparing", ctx)

\* lines 2807-2818
SeedLearned ==
    /\ pc = "seed_learning"
    /\ redis_databases.active_branches_learning_models[ctx.i] >= qmla.NumModelsPerBranch[ctx.i]
    /\ Commit(all_models_learned(Cur, ctx.i), "seed_comparing", ctx)

\* lines 2819-2836, and the next round of the for loop
SeedCompared ==
    /\ pc = "seed_comparing"
    /\ redis_databases.active_branches_bayes[ctx.i] >= qmla.NumModelPairsPerBranch[ctx.i]
    /\ IF ctx.i + 1 \in DOMAIN qmla.BranchModels
       THEN Commit(learn_models_on_given_branch(Cur, ctx.i + 1), "seed_learning",
                   [ctx EXCEPT !.i = @ + 1])
       ELSE Commit(Cur, "generation", NoCtx)

\* the for loop of line 2900 starts: the branches whose comparisons are
\* finished by now will be visited by it
EnterCompareLoop(W) ==
    Commit(W, "gen_compare",
           [at |-> "gen_compare",
            todo |-> {b \in DOMAIN W.qmla.BranchModels : comparisons_finished(W, b)}])

\* lines 2859-2898: loop test, failure check, and the loop over the branches
\* whose models are learned
GenerationLearned ==
    /\ pc = "generation"
    /\ IF qmla.NumTreesCompleted >= qmla.NumTrees THEN Commit(Cur, "drain", [at |-> "drain"])
       ELSE IF inspect_remote_job_crashes(Cur).exc # "none"
       THEN Commit(inspect_remote_job_crashes(Cur), "generation", NoCtx)
       ELSE \E branch_ids_on_db \in
                  Orderings({b \in DOMAIN qmla.BranchModels : learning_finished(Cur, b)}) :
               EnterCompareLoop(all_models_learned_on(Cur, branch_ids_on_db))

\* where the orchestrator goes once branchID has its champion
AfterComparison(W, branchID, ret_ctx) ==
    IF W.exc = "none" /\ ret_ctx.at = "gen_compare"
       /\ ~W.qmla.TreesCompleted[W.qmla.Branchget_growth_rule[branchID]]
    THEN Commit(W, "gen_spawn", [at |-> "gen_spawn", branchID |-> branchID, ret_ctx |-> ret_ctx])
    ELSE Commit(W, ret_ctx.at, ret_ctx)

\* the champion of a branch is made the global champion as well
AfterRound_crowns_branch_champions(round, branchID, models_points, depth, ret_ctx) ==
    IF round.w.exc # "none" THEN Commit(round.w, "crashed", NoCtx)
    ELSE IF Len(round.max_points_branches) > 1
    THEN Commit(round.w, "tiebreak",
                [at |-> "tiebreak", model_list |-> round.max_points_branches,
                 branchID |-> branchID, models_points |-> models_points,
                 depth |-> depth, ret_ctx |-> ret_ctx])
    ELSE IF ret_ctx.at = "final_champion"
    THEN Commit(crown_champion(round.w, round.max_points_branches[1]), "final_champion", ret_ctx)
    ELSE AfterComparison(crown_branch_champion(
                             [round.w EXCEPT !.qmla.ChampID = {round.max_points_branches[1]}],
                             branchID, models_points, round.max_points_branches[1]),
                         branchID, ret_ctx)

\* lines 1385-1415, 1555-1587: a single model with max points is the
\* champion; several have their ratios recomputed and are compared again
AfterRound(round, branchID, models_points, depth, ret_ctx) ==
    IF round.w.exc # "none" THEN Commit(round.w, "crashed", NoCtx)
    ELSE IF Len(round.max_points_branches) > 1
    THEN Commit(round.w, "tiebreak",
                [at |-> "tiebreak", model_list |-> round.max_points_branches,
                 branchID |-> branchID, models_points |-> models_points,
                 depth |-> depth, ret_ctx |-> ret_ctx])
    ELSE IF ret_ctx.at = "final_champion"
    THEN Commit(crown_champion(round.w, round.max_points_branches[1]), "final_champion", ret_ctx)
    ELSE AfterComparison(crown_branch_champion(round.w, branchID, models_points,
                                               round.max_points_branches[1]),
                         branchID, ret_ctx)

AfterFirstRound(round, branchID, ret_ctx) ==
    AfterRound(round, branchID, round.models_points, 0, ret_ctx)

\* the branch is marked, but its tournament is not run
CompareBranch_without_tournament(W, branchID, ret_ctx) ==
    AfterComparison([W EXCEPT !.qmla.BranchComparisonsComplete[branchID] = TRUE],
                    branchID, ret_ctx)

\* the tournament of the branch is run, but the branch is not marked
CompareBranch_not_marked(W, branchID, ret_ctx) ==
    AfterFirstRound(tournament_round(W, W.qmla.BranchModelIds[branchID]), branchID, ret_ctx)

\* lines 2912-2913, 2986-2987: the branch is marked and its tournament run
CompareBranch(W, branchID, ret_ctx) ==
    AfterFirstRound(
        tournament_round([W EXCEPT !.qmla.BranchComparisonsComplete[branchID] = TRUE],
                         W.qmla.BranchModelIds[branchID]),
        branchID, ret_ctx)

\* lines 2900-2913
GenerationCompared ==
    /\ pc = "gen_compare"
    /\ \E b \in DOMAIN qmla.BranchModels :
          /\ comparisons_finished(Cur, b)
          /\ CompareBranch(Cur, b, ctx)

\* the answer of the growth rule is not looked at
AfterSpawn_tree_left_open(spawned, growth_rule, ret_ctx) ==
    Commit(spawned.w, ret_ctx.at, ret_ctx)

\* the tree is flagged complete, but the count of completed trees is left
AfterSpawn_flag_without_count(spawned, growth_rule, ret_ctx) ==
    IF spawned.ret /\ spawned.w.exc = "none"
    THEN Commit([spawned.w EXCEPT !.qmla.TreesCompleted[growth_rule] = TRUE],
                ret_ctx.at, ret_ctx)
    ELSE Commit(spawned.w, ret_ctx.at, ret_ctx)

\* lines 2931-2942
AfterSpawn(spawned, growth_rule, ret_ctx) ==
    IF spawned.ret /\ spawned.w.exc = "none"
    THEN Commit([spawned.w EXCEPT !.qmla.TreesCompleted[growth_rule] = TRUE,
                                  !.qmla.NumTreesCompleted = @ + 1],
                ret_ctx.at, ret_ctx)
    ELSE Commit(spawned.w, ret_ctx.at, ret_ctx)

\* lines 2916-2947
GenerationSpawn ==
    /\ pc = "gen_spawn"
    /\ \E new_models \in GrowthProposals :
          \E set_2 \in list_of_set(alph_all(new_models)) :
             AfterSpawn(spawn_from_branch(Cur, ctx.branchID,
                                          qmla.Branchget_growth_rule[ctx.branchID], set_2),
                        qmla.Branchget_growth_rule[ctx.branchID], ctx.ret_ctx)

\* the for loop of line 2900 has visited every branch: those that were ready
\* when it started have been compared
GenerationEnd ==
    /\ pc = "gen_compare"
    /\ \A b \in ctx.todo : qmla.BranchComparisonsComplete[b]
    /\ Commit(Cur, "generation", NoCtx)

\* the round of compare_models_from_list on the recomputed ratios
RecomputedRound(W, c) ==
    IF W.exc # "none" THEN Commit(W, "tiebreak", c)
    ELSE AfterRound(
             compare_models_from_list(
                 [W EXCEPT !.hist.tiebreaks =
                      Append(@, [branchID |-> c.branchID, model_list |-> c.model_list,
                                 loop |-> c.ret_ctx.at,
                                 first |-> Len(hist.bayes_dispatched) + 1,
                                 last |-> Len(W.hist.bayes_dispatched)])],
                 c.model_list),
             c.branchID, c.models_points, c.depth + 1, c.ret_ctx)

\* lines 1401-1413, 1574-1584: the tied models are recomputed and compared
TieBreak ==
    /\ pc = "tiebreak"
    /\ ctx.depth < MaxRecompute
    /\ \E outcome \in JobOutcomes(PairsOfList(ctx.model_list)) :
          RecomputedRound(get_bayes_factors_from_list(Cur, ctx.model_list, outcome), ctx)

\* lines 2974-2987, 1886-1898
PollCompare(W, b, loop) ==
    IF comparisons_finished(W, b) THEN CompareBranch(W, b, [at |-> loop])
    ELSE Commit(W, loop, [at |-> loop])

\* lines 2963-2987, 1875-1898: one branch of a loop that waits for the
\* branches still learning or comparing
PollBranch(b, loop) ==
    \/ /\ learning_finished(Cur, b)
       /\ PollCompare(all_models_learned(Cur, b), b, loop)
    \/ /\ ~learning_finished(Cur, b)
       /\ comparisons_finished(Cur, b)
       /\ CompareBranch(Cur, b, [at |-> loop])

\* lines 2989-2999, 1900-1910
AllBranchesDone ==
    /\ \A b \in DOMAIN qmla.BranchAllModelsLearned : qmla.BranchAllModelsLearned[b]
    /\ \A b \in DOMAIN qmla.BranchComparisonsComplete : qmla.BranchComparisonsComplete[b]

\* lines 2960-2987: one branch of the drain loop
DrainBranch ==
    /\ pc = "drain"
    /\ \E b \in DOMAIN redis_databases.active_branches_learning_models : PollBranch(b, "drain")

\* the drain loop is left without the look at the flags of the branches
DrainDone_at_once ==
    /\ pc = "drain"
    /\ Commit(Cur, "final", NoCtx)

\* lines 2989-3002
DrainDone ==
    /\ pc = "drain"
    /\ AllBranchesDone
    /\ Commit(Cur, "final", NoCtx)

\* lines 1618-1807
FinalParentChild ==
    /\ pc = "final"
    /\ \E outcome \in ParentChildOutcomes(parent_child_pairs(qmla)) :
          Commit(parent_child_comparisons(Cur, parent_child_pairs(qmla), outcome),
                 "final_trees", [at |-> "final_trees", k |-> 1])

\* lines 1841-1857: the ghost branch of one tree
FinalGhostBranch ==
    /\ pc = "final_trees"
    /\ \E model_list \in list_of_set(tree_champion_names(qmla, qmla.ActiveBranchChampList,
                                                         qmla.growth_rules_list[ctx.k])) :
          Commit(ghost_branch_launch(new_branch(Cur, qmla.growth_rules_list[ctx.k], model_list)),
                 IF ctx.k = Len(qmla.growth_rules_list) THEN "ghost" ELSE "final_trees",
                 IF ctx.k = Len(qmla.growth_rules_list) THEN [at |-> "ghost"]
                 ELSE [ctx EXCEPT !.k = @ + 1])

\* lines 1871-1898: one branch of the loop over the ghost branches
GhostBranch ==
    /\ pc = "ghost"
    /\ \E b \in DOMAIN redis_databases.active_branches_learning_models : PollBranch(b, "ghost")

\* lines 1900-1912
GhostDone ==
    /\ pc = "ghost"
    /\ AllBranchesDone
    /\ Commit(Cur, "final_tournament", NoCtx)

\* lines 1916-2011
FinalTournament ==
    /\ pc = "final_tournament"
    /\ \E outcome \in JobOutcomes(PairsOfList(all_active_model_ids(qmla.db))) :
          AfterRound(final_round(final_tournament(Cur, all_active_model_ids(qmla.db), outcome)),
                     0, EmptyMap, 0, [at |-> "final_champion"])

\* lines 3013-3035 with no reduction: the check is not asked for, or no
\* parameter, or every parameter, is negligible
Finalise ==
    /\ pc = "final_champion"
    /\ Commit(Cur, "done", NoCtx)

\* lines 3013-3035 with a reduced champion suggested
ReduceChampion ==
    /\ pc = "final_champion"
    /\ \E original_champ_id \in qmla.ChampID :
          \E new_mod \in ReducedNames(qmla.model_name_id_map[original_champ_id]),
             outcome \in JobOutcomes({<<0, 0>>}) :
             Commit(check_champion_reducibility(
                        Cur, original_champ_id, new_mod,
                        [failed |-> outcome.failed,
                         bayes_factors |->
                             [p \in {unique_model_pair_identifier(
                                         original_champ_id,
                                         add_model_to_database(Cur, new_mod, 0).ret.model_id)}
                              |-> IF outcome.failed THEN <<1, 1>>
                                  ELSE outcome.bayes_factors[<<0, 0>>]]]),
                    "done", NoCtx)

(***************************************************************************)
(* Worker steps                                                            *)
(***************************************************************************)
LearnJobFinishes ==
    /\ pc \notin Terminal
    /\ \E job \in rq_queue.learn : Commit(learnModelRemote(Cur, job), pc, ctx)

BayesJobFinishes ==
    /\ pc \notin Terminal
    /\ \E job \in rq_queue.bayes, bayes_factor \in BayesFactorValues :
          Commit(BayesFactorRemote(Cur, job, bayes_factor), pc, ctx)

\* a learning job fails or times out; it will never finish
LearnJobFails ==
    /\ pc \notin Terminal
    /\ ~redis_databases.any_job_failed
    /\ \E job \in rq_queue.learn :
          Commit([remote_job_failure(Cur) EXCEPT !.rq.learn = @ \ {job}], pc, ctx)

\* a comparison job fails or times out
BayesJobFails ==
    /\ pc \notin Terminal
    /\ ~redis_databases.any_job_failed
    /\ \E job \in rq_queue.bayes :
          Commit([remote_job_failure(Cur) EXCEPT !.rq.bayes = @ \ {job}], pc, ctx)

Next ==
    \/ Start \/ SeedLearned \/ SeedCompared
    \/ GenerationLearned \/ GenerationCompared \/ GenerationSpawn \/ GenerationEnd
    \/ TieBreak \/ DrainBranch \/ DrainDone
    \/ FinalParentChild \/ FinalGhostBranch \/ GhostBranch \/ GhostDone
    \/ FinalTournament \/ Finalise \/ ReduceChampion
    \/ LearnJobFinishes \/ BayesJobFinishes \/ LearnJobFails \/ BayesJobFails

Spec == Init /\ [][Next]_vars

(***************************************************************************)
(* Tournament specification: compare_all_models_in_branch on one branch    *)
(* whose comparisons are stored: run twice from the same state, the second *)
(* time with the ids of the branch in another order, and called again      *)
(* after a stored ratio has changed                                        *)
(***************************************************************************)
RECURSIVE learn_all(_, _)
learn_all(W, jobs) ==
    IF jobs = {} THEN W
    ELSE learn_all(learnModelRemote(W, CHOOSE j \in jobs : TRUE),
                   jobs \ {CHOOSE j \in jobs : TRUE})

RECURSIVE compare_all(_, _, _)
compare_all(W, jobs, bayes_factors) ==
    IF jobs = {} THEN W
    ELSE compare_all(BayesFactorRemote(W, CHOOSE j \in jobs : TRUE,
                                       bayes_factors[(CHOOSE j \in jobs : TRUE).pair]),
                     jobs \ {CHOOSE j \in jobs : TRUE}, bayes_factors)

\* the pairs whose jobs are queued in W
queued_pairs(W) == {job.pair : job \in W.rq.bayes}

\* the run up to the point where the models of branch 0 are learned and its
\* comparison jobs are enqueued (lines 2798-2898)
branch_learned(W) ==
    all_models_learned(learn_all(learn_models_on_given_branch(W, 0),
                                 learn_models_on_given_branch(W, 0).rq.learn), 0)

\* the champion a round gives: the only model with max points, if there is one
champion_of(round) ==
    IF round.w.exc = "none" /\ Len(round.max_points_branches) = 1
    THEN {round.max_points_branches[1]} ELSE {}

\* lines 1401-1413: the tied models are recomputed and compared again
recompute_round(round, outcome) ==
    IF round.w.exc # "none" \/ Len(round.max_points_branches) <= 1 THEN round
    ELSE compare_models_from_list(
             get_bayes_factors_from_list(round.w, round.max_points_branches, outcome),
             round.max_points_branches)

\* the champion is the first of the models with max points
compare_all_models_in_branch_first_of_tied(first, outcome) ==
    [exc |-> first.w.exc,
     models_points |-> IF first.w.exc = "none" THEN first.models_points ELSE EmptyMap,
     champ_id |-> IF first.w.exc = "none" THEN {first.max_points_branches[1]} ELSE {}]

\* compare_all_models_in_branch, first being its double loop over the pairs:
\* the exception it ends with or, without one, its points and its champion
\* (none when the tie is still there after the recompute)
compare_all_models_in_branch(first, outcome) ==
    [exc |-> recompute_round(first, outcome).w.exc,
     models_points |-> IF recompute_round(first, outcome).w.exc = "none"
                       THEN first.models_points ELSE EmptyMap,
     champ_id |-> champion_of(recompute_round(first, outcome))]

\* the pairs either of two runs may have to recompute
tied_pairs(first, second) ==
    PairsOfList(first.max_points_branches) \cup PairsOfList(second.max_points_branches)

\* the state in which the jobs of W have stored the ratios bayes_factors
branch_compared(W, bayes_factors) ==
    /\ qmla = compare_all(W, W.rq.bayes, bayes_factors).qmla
    /\ redis_databases = compare_all(W, W.rq.bayes, bayes_factors).rds
    /\ rq_queue = compare_all(W, W.rq.bayes, bayes_factors).rq
    /\ hist = compare_all(W, W.rq.bayes, bayes_factors).hist
    /\ pc = "tournament"
    /\ ctx = NoCtx

InitTournament ==
    \E c \in {c \in RunConfigs : Len(c.generator_list) = 1} :
        \E bayes_factors \in
               [queued_pairs(branch_learned(
                    World(QuantumModelLearningAgent(c.generator_list, c.initial_models),
                          databases_from_qmd_id, rq_Queue, HistInit))) -> BayesFactorValues] :
            branch_compared(
                branch_learned(World(QuantumModelLearningAgent(c.generator_list,
                                                               c.initial_models),
                                     databases_from_qmd_id, rq_Queue, HistInit)),
                bayes_factors)

\* the two runs, on the same stored ratios and the same recomputed ratios
TwoTournaments(first, second, order) ==
    \E outcome \in JobOutcomes(tied_pairs(first, second)) :
        /\ qmla' = first.w.qmla
        /\ redis_databases' = first.w.rds
        /\ rq_queue' = first.w.rq
        /\ hist' = first.w.hist
        /\ pc' = "compared"
        /\ ctx' = [at |-> "compared", order |-> order,
                   first |-> compare_all_models_in_branch(first, outcome),
                   second |-> compare_all_models_in_branch(second, outcome)]

RunTournaments ==
    /\ pc = "tournament"
    /\ \E order \in Orderings(Range(qmla.BranchModelIds[0])) :
          TwoTournaments(tournament_round(Cur, qmla.BranchModelIds[0]),
                         tournament_round(Cur, order), order)

\* the calls of compare_all_models_in_branch that have returned
evaluations == Cardinality({k \in DOMAIN hist.events : hist.events[k].ev = "Compared"})

\* compare_all_models_in_branch from the round that found its champion on
\* (lines 1416-1519), models_points being the points of the first round
branch_evaluated(last, branchID, models_points) ==
    IF last.w.exc # "none" THEN Commit(last.w, "evaluated", NoCtx)
    ELSE Commit(crown_branch_champion(last.w, branchID, models_points,
                                      last.max_points_branches[1]),
                "evaluated", NoCtx)

\* a call that ends: with a champion, at once or after the recompute of a
\* tie, or with an exception
evaluate_branch(first, branchID) ==
    \E outcome \in JobOutcomes(PairsOfList(first.max_points_branches)) :
        /\ \/ recompute_round(first, outcome).w.exc # "none"
           \/ Len(recompute_round(first, outcome).max_points_branches) = 1
        /\ branch_evaluated(recompute_round(first, outcome), branchID, first.models_points)

\* a call of compare_all_models_in_branch on branch 0
EvaluateBranch ==
    /\ pc = "tournament"
    /\ evaluations < MaxEvaluations
    /\ evaluate_branch(tournament_round(Cur, qmla.BranchModelIds[0]), 0)

\* a later Comparator job stores another ratio for a pair of the branch, as
\* the jobs of the final reconciliation do
PairRecomputed ==
    /\ pc = "evaluated"
    /\ evaluations < MaxEvaluations
    /\ \E pair \in PairsOfList(qmla.BranchModelIds[0]), bayes_factor \in BayesFactorValues :
          Commit(BayesFactorRemote(get_pairwise_bayes_factor(Cur, pair[1], pair[2], 0, TRUE),
                                   [pair |-> pair, branchID |-> 0, interbranch |-> TRUE],
                                   bayes_factor),
                 "tournament", NoCtx)

NextTournament == RunTournaments \/ EvaluateBranch \/ PairRecomputed

SpecTournament == InitTournament /\ [][NextTournament]_vars

ResidentPairs(b) ==
    {p \in SUBSET Range(qmla.BranchModelIds[b]) : Cardinality(p) = 2}

\* C4: the pair count recorded for a branch is the number of unordered pairs
\* of distinct model ids resident on it.
C4_PairCount ==
    \A b \in DOMAIN qmla.BranchModelIds :
        qmla.NumModelPairsPerBranch[b] = Cardinality(ResidentPairs(b))

\* C2: once a worker has raised the failure flag, a branch created afterwards
\* has no learning or comparison job dispatched for it and is never spawned
\* from, and the run does not end with a champion.
C2_FailureHaltsDispatch ==
    \A f \in hist.failed_at :
        /\ \A k \in DOMAIN hist.learn_dispatched : hist.learn_dispatched[k].branchID <= f
        /\ \A k \in DOMAIN hist.bayes_dispatched :
              ~hist.bayes_dispatched[k].interbranch => hist.bayes_dispatched[k].branchID <= f
        /\ \A k \in DOMAIN hist.events :
              hist.events[k].ev = "Spawned" => hist.events[k].branch <= f
        /\ pc # "done"

\* the places of run_complete_qmla and perform_final_bayes_comparisons where
\* the orchestrator polls the counters of the coordination store
PollingLoops == {"seed_learning", "seed_comparing", "generation", "drain", "ghost"}

\* C3: with the failure flag set, the next step the orchestrator takes from
\* any of its polling loops is the abort of the run.
C3_AbortAtNextPoll ==
    [][(/\ redis_databases.any_job_failed
        /\ pc \in PollingLoops
        /\ (pc' # pc \/ qmla' # qmla))
       => pc' = "aborted"]_vars

\* the resident pairs of branch b whose ratio is in the per-pair result store
StoredPairs(b) ==
    {p \in ResidentPairs(b) :
        \E m \in p, n \in p :
            m < n /\ unique_model_pair_identifier(m, n) \in DOMAIN redis_databases.bayes_factors_db}

\* C5: a branch marked comparisons-complete has a stored result for exactly
\* pair-count distinct resident pairs.
C5_CompleteMeansStored ==
    \A b \in DOMAIN qmla.BranchComparisonsComplete :
        qmla.BranchComparisonsComplete[b]
        => Cardinality(StoredPairs(b)) = qmla.NumModelPairsPerBranch[b]

\* the BayesFactors dictionary of the model with id model_id
ComparisonCache(model_id) == qmla.db[index_from_model_id(qmla.db, model_id)].BayesFactors

\* C6: for every pair of distinct model ids (a, b), a's cache holds scores
\* for b exactly when b's holds scores for a, the two lists have the same
\* length, and each score(a, b) is 1 / score(b, a); also after the reduction.
C6_ReciprocalCache ==
    \A a, b \in {qmla.db[i].ModelID : i \in DOMAIN qmla.db} :
        a # b =>
            /\ (b \in DOMAIN ComparisonCache(a)) <=> (a \in DOMAIN ComparisonCache(b))
            /\ b \in DOMAIN ComparisonCache(a) /\ a \in DOMAIN ComparisonCache(b) =>
                  /\ Len(ComparisonCache(a)[b]) = Len(ComparisonCache(b)[a])
                  /\ \A k \in DOMAIN ComparisonCache(a)[b] :
                        ComparisonCache(a)[b][k] = Reciprocal(ComparisonCache(b)[a][k])

\* the reciprocity of the caches as long as no champion has been replaced
C6_ReciprocalBeforeReduction == hist.replaced \/ C6_ReciprocalCache

\* C7: when a comparison job is dispatched for a branch, the learned result
\* of every resident model of that branch has been reported.
C7_LearnedBeforeCompared ==
    \A k \in DOMAIN hist.bayes_dispatched :
        ~hist.bayes_dispatched[k].interbranch
        => Range(qmla.BranchModelIds[hist.bayes_dispatched[k].branchID])
               \subseteq hist.bayes_dispatched[k].learned

\* the place of an event in the order of the states of a branch
StateRank(ev) ==
    IF ev = "Dispatched" THEN 1 ELSE IF ev = "Learned" THEN 2
    ELSE IF ev = "Compared" THEN 3 ELSE 4

\* every call of spawn_from_branch comes after the tournament of its branch,
\* with the comparison count at the pair count, the ranking and the champion
SpawnedAfterCompared ==
    \A k \in DOMAIN hist.events :
        hist.events[k].ev = "Spawned" =>
            /\ \E j \in 1..(k - 1) :
                  hist.events[j] = [ev |-> "Compared", branch |-> hist.events[k].branch]
            /\ hist.events[k].branch \in DOMAIN qmla.branch_rankings
            /\ hist.events[k].branch \in DOMAIN qmla.BranchChampions
            /\ redis_databases.active_branches_bayes[hist.events[k].branch]
                   = qmla.NumModelPairsPerBranch[hist.events[k].branch]

\* the events of each of the branches follow the order of the states
StatesInOrder(branches) ==
    \A i, j \in DOMAIN hist.events :
        (/\ i < j
         /\ hist.events[i].branch \in branches
         /\ hist.events[i].branch = hist.events[j].branch)
        => StateRank(hist.events[i].ev) < StateRank(hist.events[j].ev)

\* C8: spawn_from_branch is called for a branch only when its comparison
\* count has reached its pair count and compare_all_models_in_branch has left
\* its ranking and champion, and the states of every branch follow each other
\* in the order Dispatched, Learned, Compared, Spawned.
C8_ComparedBeforeSpawned ==
    /\ SpawnedAfterCompared
    /\ StatesInOrder(DOMAIN qmla.BranchModels)

\* the ghost branches of the final reconciliation
GhostBranches == Range(qmla.FinalTrees)

\* C8 as amended: the same for the branches of the growth trees; a ghost
\* branch is marked Learned when it is made, before the call that dispatches
\* its learning, is compared after both, and is never spawned from.
C8_TreeBranchesInOrder ==
    /\ SpawnedAfterCompared
    /\ StatesInOrder(DOMAIN qmla.BranchModels \ GhostBranches)
    /\ \A i, j \in DOMAIN hist.events :
          (/\ i < j
           /\ hist.events[i].branch \in GhostBranches
           /\ hist.events[i].branch = hist.events[j].branch)
          => \/ hist.events[i].ev = "Learned" /\ hist.events[j].ev \in {"Dispatched", "Compared"}
             \/ hist.events[i].ev = "Dispatched" /\ hist.events[j].ev = "Compared"

\* a branch with pairs to compare went through the four states, and a ghost
\* branch made afterwards has been compared
C8_Witness ==
    /\ \E k \in DOMAIN hist.events :
          /\ hist.events[k].ev = "Spawned"
          /\ qmla.NumModelPairsPerBranch[hist.events[k].branch] > 0
          /\ \A e \in {"Dispatched", "Learned", "Compared"} :
                \E j \in 1..(k - 1) : hist.events[j] = [ev |-> e, branch |-> hist.events[k].branch]
    /\ \E g \in GhostBranches :
          /\ qmla.NumModelPairsPerBranch[g] > 0
          /\ \E k \in DOMAIN hist.events : hist.events[k] = [ev |-> "Compared", branch |-> g]

\* the points the rule gives model m on branch b for the stored ratios: one
\* for each resident n it beats, the ratio of a pair being that of the lower
\* id over the higher id
RulePoints(b) ==
    [m \in Range(qmla.BranchModelIds[b]) |->
        Cardinality({n \in Range(qmla.BranchModelIds[b]) \ {m} :
            /\ unique_model_pair_identifier(m, n) \in DOMAIN redis_databases.bayes_factors_db
            /\ \/ m < n /\ Exceeds(redis_databases.bayes_factors_db[<<m, n>>], BayesLower)
               \/ n < m /\ Below(redis_databases.bayes_factors_db[<<n, m>>], BayesLower)})]

\* C9: when compare_all_models_in_branch runs on a branch that has resident
\* pairs, all with a stored ratio, each pair gives one point to the lower id
\* if the ratio exceeds the threshold, one to the higher id if it is below
\* its inverse and none otherwise, and the tournament goes on to its
\* champion or to the recompute of a tie.
C9_PointRule ==
    [][\A b \in DOMAIN qmla.BranchComparisonsComplete :
          (/\ ~qmla.BranchComparisonsComplete[b]
           /\ qmla'.BranchComparisonsComplete[b]
           /\ ResidentPairs(b) # {}
           /\ StoredPairs(b) = ResidentPairs(b))
          => \/ /\ pc' = "tiebreak"
                /\ ctx'.models_points = RulePoints(b)
             \/ /\ pc' \notin {"tiebreak", "crashed"}
                /\ b \in DOMAIN qmla'.branch_bayes_points
                /\ qmla'.branch_bayes_points[b] = RulePoints(b)]_vars

\* the models with the maximal number of points
ArgMax(models_points) ==
    {m \in DOMAIN models_points :
        \A n \in DOMAIN models_points : models_points[n] <= models_points[m]}

\* the recompute rounds of the tournament of branch b
TieBreaksOf(b) ==
    {k \in DOMAIN hist.tiebreaks :
        hist.tiebreaks[k].branchID = b /\ hist.tiebreaks[k].loop # "final_champion"}

\* C10: the champion of a branch is the model with the most points when
\* there is only one; when several share the maximum, the pairs of exactly
\* those models are computed again, each once, the tournament is run again
\* on those models only, and the champion is one of them.
C10_ChampionSelection ==
    /\ \A b \in DOMAIN qmla.BranchChampions :
          /\ qmla.BranchChampions[b] \in ArgMax(qmla.branch_bayes_points[b])
          /\ \A k \in TieBreaksOf(b) :
                /\ Range(hist.tiebreaks[k].model_list) \subseteq ArgMax(qmla.branch_bayes_points[b])
                /\ qmla.BranchChampions[b] \in Range(hist.tiebreaks[k].model_list)
                /\ (\A j \in TieBreaksOf(b) : k <= j)
                   => Range(hist.tiebreaks[k].model_list) = ArgMax(qmla.branch_bayes_points[b])
          /\ TieBreaksOf(b) = {} => Cardinality(ArgMax(qmla.branch_bayes_points[b])) = 1
    /\ \A k \in DOMAIN hist.tiebreaks :
          /\ {hist.bayes_dispatched[i].pair : i \in hist.tiebreaks[k].first..hist.tiebreaks[k].last}
                 = PairsOfList(hist.tiebreaks[k].model_list)
          /\ hist.tiebreaks[k].last - hist.tiebreaks[k].first + 1
                 = Cardinality(PairsOfList(hist.tiebreaks[k].model_list))
    /\ (pc = "tiebreak" /\ ctx.depth = 0 /\ ctx.ret_ctx.at # "final_champion")
       => /\ Range(ctx.model_list) = ArgMax(ctx.models_points)
          /\ Len(ctx.model_list) > 1

\* a branch whose champion came out of the recompute of a tie between some,
\* not all, of its models
C10_Witness ==
    \E b \in DOMAIN qmla.BranchChampions :
        \E k \in TieBreaksOf(b) :
            /\ Range(hist.tiebreaks[k].model_list) # Range(qmla.BranchModelIds[b])
            /\ Len(hist.tiebreaks[k].model_list) > 1
            /\ qmla.BranchChampions[b] \in Range(hist.tiebreaks[k].model_list)

\* C11: a tie that is still there after the forced recompute ends the
\* tournament with an error; the tied models are not recomputed again and
\* again.
C11_TieBreakBounded == pc = "tiebreak" => ctx.depth = 0

\* C12: two runs of compare_all_models_in_branch on the same models of a
\* branch, the same stored ratios and the same threshold give the same
\* points to every model and the same champion, whatever the order in which
\* the branch lists its models.
C12_TournamentDeterministic ==
    pc = "compared" =>
        /\ ctx.first.models_points = ctx.second.models_points
        /\ ctx.first.champ_id = ctx.second.champ_id
        /\ ctx.first.exc = ctx.second.exc

\* the second run listed the models in another order, and the champion came
\* out of the recompute of a tie
C12_Witness ==
    /\ pc = "compared"
    /\ ctx.order # qmla.BranchModelIds[0]
    /\ Cardinality(ArgMax(ctx.first.models_points)) > 1
    /\ ctx.first.champ_id # {}

\* the events ev of branch b
EventsOf(ev, b) == {k \in DOMAIN hist.events : hist.events[k] = [ev |-> ev, branch |-> b]}

\* C13: over the whole run a branch is marked all-learned once, with its
\* comparisons dispatched then and each of its pairs at most once, and
\* compare_all_models_in_branch and spawn_from_branch run at most once for
\* it; a later poll of a marked branch, in the generation loop, the drain
\* loop or the loop over the ghost branches, does nothing.
C13_MarkedOnce ==
    /\ \A b \in DOMAIN qmla.BranchModels :
          \A ev \in {"Learned", "Compared", "Spawned"} : Cardinality(EventsOf(ev, b)) <= 1
    /\ \A i, j \in DOMAIN hist.bayes_dispatched :
          (/\ i < j
           /\ ~hist.bayes_dispatched[i].interbranch
           /\ ~hist.bayes_dispatched[j].interbranch
           /\ hist.bayes_dispatched[i].branchID = hist.bayes_dispatched[j].branchID)
          => hist.bayes_dispatched[i].pair # hist.bayes_dispatched[j].pair
    /\ \A b \in DOMAIN qmla.BranchModels :
          /\ EventsOf("Learned", b) # {} => qmla.BranchAllModelsLearned[b]
          /\ EventsOf("Compared", b) # {} => qmla.BranchComparisonsComplete[b]

\* a loop after the generation loop is polling while a branch it marked
\* before still has its counters at its size and pair count
C13_Witness ==
    /\ pc \in {"drain", "ghost"}
    /\ \E b \in DOMAIN qmla.BranchModels :
          /\ EventsOf("Compared", b) # {}
          /\ EventsOf("Spawned", b) # {}
          /\ qmla.NumModelPairsPerBranch[b] > 0
          /\ redis_databases.active_branches_bayes[b] = qmla.NumModelPairsPerBranch[b]
          /\ redis_databases.active_branches_learning_models[b] = qmla.NumModelsPerBranch[b]
    /\ \E b \in DOMAIN qmla.BranchModels : EventsOf("Compared", b) = {}

\* the initial branches: one for each growth rule
SeedBranches == 0..(qmla.NumTrees - 1)

\* the places of the initial branches, or of their lists of precomputed
\* models, that hold name
SeedOccurrences(lists, name) ==
    {ik \in SeedBranches \X (1..Max_N_Qubits) :
        ik[2] \in DOMAIN lists[ik[1]] /\ lists[ik[1]][ik[2]] = name}

\* the canonical forms of the names the growth rules seed
SeedNames == UNION {Range(qmla.BranchModels[i]) : i \in SeedBranches}

\* C14: a canonical form that the growth rules seed more than once, in one
\* tree or in several, gets one model id, the ids given being 0, 1, ... with
\* none left out, every occurrence carries that id, and all its occurrences
\* but one (the first) are recorded as precomputed on their branch.
C14_SeedDuplicates ==
    /\ \A name \in SeedNames :
          /\ \A ik \in SeedOccurrences(qmla.BranchModels, name) :
                qmla.BranchModelIds[ik[1]][ik[2]] = qmla.InitialModelIDs[name]
          /\ Cardinality(SeedOccurrences(qmla.BranchPrecomputedModels, name))
                 = Cardinality(SeedOccurrences(qmla.BranchModels, name)) - 1
    /\ {qmla.InitialModelIDs[name] : name \in SeedNames} = 0..(Cardinality(SeedNames) - 1)

\* one growth rule seeds two different texts of one canonical form, and
\* another growth rule a name the first has seeded
C14_Witness ==
    /\ \E gen \in DOMAIN qmla.growth_rules_initial_models :
          \E m1, m2 \in Range(qmla.growth_rules_initial_models[gen]) :
              m1 # m2 /\ alph(m1) = alph(m2)
    /\ \E name \in SeedNames :
          \E ik, jl \in SeedOccurrences(qmla.BranchModels, name) : ik[1] # jl[1]
    /\ Len(hist.add_log) > 0

\* the champion a parent/child ratio read by the collapse goes against: the
\* stored ratio is that of the lower id over the higher id
Loser(r) ==
    IF Exceeds(IF r.parent < r.child THEN r.bayes_factor ELSE Reciprocal(r.bayes_factor),
               interbranch_collapse_threshold)
    THEN {r.child}
    ELSE IF Below(IF r.parent < r.child THEN r.bayes_factor ELSE Reciprocal(r.bayes_factor),
                  interbranch_collapse_threshold)
    THEN {r.parent}
    ELSE {}

CollapseLosers == UNION {Loser(hist.collapse[k]) : k \in DOMAIN hist.collapse}

\* C15: the champion that a parent/child ratio beyond the collapse threshold
\* goes against is Deactivated, leaves the list of active champions and is
\* in no ghost branch and not among the champions of the final tournament;
\* the champions the collapse leaves in the list are exactly the others.
C15_ParentChildCollapse ==
    /\ \A m \in CollapseLosers :
          /\ \A i \in RowsWithId(qmla.db, m) : qmla.db[i].Status = "Deactivated"
          /\ m \notin Range(qmla.ActiveBranchChampList)
          /\ \A g \in GhostBranches : m \notin Range(qmla.BranchModelIds[g])
          /\ m \notin Range(qmla.SurvivingChampions)
    /\ (pc = "final_trees" /\ ctx.k = 1)
       => Range(qmla.ActiveBranchChampList) = Range(hist.champs_before) \ CollapseLosers

\* the run ended with a champion after a collapse that took the champion of
\* a child branch out of the active champions
C15_Witness ==
    /\ pc = "done"
    /\ \E k \in DOMAIN hist.collapse :
          /\ Loser(hist.collapse[k]) = {hist.collapse[k].child}
          /\ hist.collapse[k].child \in Range(hist.champs_before)
          /\ hist.collapse[k].parent \in Range(qmla.SurvivingChampions)

\* C16: the ranking of a branch, once written, is never changed, neither by
\* the recompute of a tie nor by a later call of
\* compare_all_models_in_branch on the branch.
C16_RankingFrozen ==
    [][\A b \in DOMAIN qmla.branch_rankings :
          /\ b \in DOMAIN qmla'.branch_rankings
          /\ qmla'.branch_rankings[b] = qmla.branch_rankings[b]]_vars

\* compare_all_models_in_branch has returned twice on a branch and its second
\* points order the models otherwise than the ranking the branch has
C16_Witness ==
    /\ evaluations = 2
    /\ 0 \in DOMAIN qmla.branch_rankings
    /\ qmla.branch_rankings[0]
           # sorted_by_points(Keys(qmla.BranchModelIds[0]), qmla.branch_bayes_points[0])

\* the growth rule of the tree of branch b
TreeOf(b) == qmla.Branchget_growth_rule[b]

\* the branches spawn_from_branch made have their parent recorded and their
\* learning dispatched, and belong to the tree of their parent
SpawnedWithParent ==
    \A k \in DOMAIN hist.spawned :
        /\ hist.spawned[k].new_branch \in DOMAIN qmla.branch_parents
        /\ qmla.branch_parents[hist.spawned[k].new_branch] = hist.spawned[k].branch
        /\ TreeOf(hist.spawned[k].new_branch) = TreeOf(hist.spawned[k].branch)
        /\ \E j \in DOMAIN hist.events :
              hist.events[j] = [ev |-> "Dispatched", branch |-> hist.spawned[k].new_branch]

\* once the growth rule has signalled that a tree is complete, the only
\* branches made for that tree are ghost branches of the final reconciliation
NoBranchAfterDone ==
    \A k \in DOMAIN hist.spawned :
        hist.spawned[k].tree_completed =>
            \A b \in DOMAIN qmla.BranchModels :
                (b > hist.spawned[k].new_branch /\ TreeOf(b) = TreeOf(hist.spawned[k].branch))
                => b \in GhostBranches

\* C17: when the growth rule signals that the tree is complete the tree is
\* marked Done and no next branch is made for it; a next branch, with its
\* parent recorded and its learning dispatched, is made only when the growth
\* rule does not signal completion; a Done tree gets no further branch from
\* the generation loop.
C17_NoBranchOnCompletion ==
    /\ \A k \in DOMAIN hist.spawned : ~hist.spawned[k].tree_completed
    /\ SpawnedWithParent
    /\ NoBranchAfterDone

\* C17 as amended: spawn_from_branch makes and dispatches the next branch,
\* parent recorded, before it asks the growth rule; the tree is marked Done
\* exactly when the growth rule has signalled completion, the branch made by
\* that call being its last from the generation loop.
C17_BranchThenCompletion ==
    /\ SpawnedWithParent
    /\ NoBranchAfterDone
    /\ pc # "crashed" =>
          \A gen \in DOMAIN qmla.TreesCompleted :
              qmla.TreesCompleted[gen]
              <=> \E k \in DOMAIN hist.spawned :
                     hist.spawned[k].tree_completed /\ TreeOf(hist.spawned[k].branch) = gen
    /\ pc # "crashed" =>
          qmla.NumTreesCompleted
              = Cardinality({gen \in DOMAIN qmla.TreesCompleted : qmla.TreesCompleted[gen]})

\* a tree is Done, the branch made by the call that completed it has been
\* compared without being spawned from, and the ghost branch of the tree
\* has been made
C17_Witness ==
    \E k \in DOMAIN hist.spawned :
        /\ hist.spawned[k].tree_completed
        /\ qmla.TreesCompleted[TreeOf(hist.spawned[k].branch)]
        /\ EventsOf("Compared", hist.spawned[k].new_branch) # {}
        /\ EventsOf("Spawned", hist.spawned[k].new_branch) = {}
        /\ \E g \in GhostBranches : TreeOf(g) = TreeOf(hist.spawned[k].branch)

\* the Comparator jobs a step enqueues
NewDispatches == (Len(hist.bayes_dispatched) + 1)..Len(hist'.bayes_dispatched)

\* the pair of job k had been enqueued before
DispatchedBefore(k) ==
    \E i \in 1..(k - 1) : hist'.bayes_dispatched[i].pair = hist'.bayes_dispatched[k].pair

\* the steps that recompute: a tie-break and the final tournament
ForcedRecompute == pc \in {"tiebreak", "final_tournament"}

\* C18: a Comparator job for an unordered pair of model ids is enqueued at
\* most once over the run, the forced recomputes of a tie-break and of the
\* final tournament apart: neither the dispatch of a branch nor the
\* parent/child collapse enqueues a pair that was enqueued before.
C18_PairDispatchedOnce ==
    [][\A k \in NewDispatches : DispatchedBefore(k) => ForcedRecompute]_vars

\* the stored ratio of reduction record r, lower id over higher id, favours
\* the reduced model by more than the reduction threshold
FavoursReduced(r) ==
    IF r.champion < r.reduced
    THEN Below(r.bayes_factor, reduce_champ_bayes_factor_threshold)
    ELSE Exceeds(r.bayes_factor, reduce_champ_bayes_factor_threshold)

FinalTournamentStep ==
    \/ pc = "final_tournament"
    \/ pc = "tiebreak" /\ ctx.ret_ctx.at = "final_champion"

\* C20: the global champion is a single model id; it is not assigned during
\* seeding, the generation loop or the drain loop: its first value is written
\* by the final reconciliation, and the only later write is the one of the
\* reduction pass.
C20_ChampionWrittenAtTheEnd ==
    [][/\ Cardinality(qmla'.ChampID) <= 1
       /\ qmla'.ChampID # qmla.ChampID
          => /\ Cardinality(qmla'.ChampID) = 1
             /\ \/ qmla.ChampID = {} /\ FinalTournamentStep /\ pc' = "final_champion"
                \/ /\ qmla.ChampID # {}
                   /\ pc = "final_champion"
                   /\ pc' = "done"
                   /\ hist'.replaced
                   /\ qmla'.ChampID = {hist'.reduction[Len(hist'.reduction)].reduced}]_vars

\* the final reconciliation assigned a champion and the reduction pass
\* replaced it by another model
C20_Witness ==
    /\ pc = "done"
    /\ hist.replaced
    /\ \E k \in DOMAIN hist.reduction :
          /\ qmla.ChampID = {hist.reduction[k].reduced}
          /\ hist.reduction[k].champion \in Range(qmla.ActiveBranchChampList)
          /\ hist.reduction[k].champion # hist.reduction[k].reduced

\* C21: a comparison whose result is missing when the tournament reads it is
\* retried with a forced recompute: after the read a Comparator job of that
\* pair is enqueued again, and the run does not end on the first missing
\* read.
C21_MissingResultRetried ==
    \A r \in hist.missing_read :
        \E k \in DOMAIN hist.bayes_dispatched :
            k > r.at /\ hist.bayes_dispatched[k].pair = r.pair

\* C22: when a growth rule proposes no model for the next generation and does
\* not signal completion, the run ends with a fatal error and no empty branch
\* is made: every branch made by a spawn that did not complete its tree has
\* a resident model.
C22_NoEmptyBranch ==
    \A k \in DOMAIN hist.spawned :
        ~hist.spawned[k].tree_completed
        => qmla.BranchModelIds[hist.spawned[k].new_branch] # <<>>

\* C23: with growth rules that signal completion and jobs that all complete
\* without failure, run_complete_qmla leaves its loops and ends with exactly
\* one global champion: a run that has ended with no failed job has ended
\* normally, with one champion.
C23_EndsWithOneChampion ==
    (pc \in Terminal /\ ~redis_databases.any_job_failed)
    => (pc = "done" /\ Cardinality(qmla.ChampID) = 1)

\* C24: the record of a model is Completed only after the worker has reported
\* its learned result; while its learning job is queued or running the model
\* is not marked Completed.
C24_CompletedAfterResult ==
    \A i \in DOMAIN qmla.db :
        qmla.db[i].Completed
        => /\ qmla.db[i].ModelID \in redis_databases.learned_models_info
           /\ \A job \in rq_queue.learn : job.model_id # qmla.db[i].ModelID

\* the statuses the database has for model id m
StatusOf(db, m) == {db[i].Status : i \in RowsWithId(db, m)}

\* the step ends compare_all_models_in_branch for branch b
BranchJustCompared(b) ==
    /\ Len(hist'.events) > Len(hist.events)
    /\ hist'.events[Len(hist'.events)] = [ev |-> "Compared", branch |-> b]

\* the steps in which a tournament, the parent/child collapse or the final
\* reconciliation runs
StatusStep ==
    \/ \E b \in DOMAIN qmla'.BranchModelIds : BranchJustCompared(b)
    \/ pc \in {"tiebreak", "final", "final_tournament"}

\* C25: when compare_all_models_in_branch has returned for a branch, the
\* returned champion is its only resident model with status Active and every
\* other resident model is Deactivated; a status changes only in a
\* tournament, in the parent/child collapse or in the final reconciliation.
C25_OneActivePerBranch ==
    [][/\ \A b \in DOMAIN qmla'.BranchModelIds :
             BranchJustCompared(b)
             => /\ qmla'.BranchChampions[b] \in Range(qmla'.BranchModelIds[b])
                /\ \A m \in Range(qmla'.BranchModelIds[b]) :
                      StatusOf(qmla'.db, m)
                          = IF m = qmla'.BranchChampions[b] THEN {"Active"} ELSE {"Deactivated"}
       /\ (\E i \in DOMAIN qmla.db : qmla'.db[i].Status # qmla.db[i].Status) => StatusStep]_vars

\* a branch of several models has been compared: its champion is Active and
\* the others are Deactivated
C25_Witness ==
    \E b \in DOMAIN qmla.BranchChampions :
        /\ hist.events # <<>>
        /\ hist.events[Len(hist.events)] = [ev |-> "Compared", branch |-> b]
        /\ Len(qmla.BranchModelIds[b]) > 1
        /\ StatusOf(qmla.db, qmla.BranchChampions[b]) = {"Active"}
        /\ \E m \in Range(qmla.BranchModelIds[b]) : StatusOf(qmla.db, m) = {"Deactivated"}

\* what new_branch and the seeding record about the membership of branch b
Membership(q, b) ==
    [BranchModelIds |-> q.BranchModelIds[b],
     BranchModels |-> q.BranchModels[b],
     BranchPrecomputedModels |-> q.BranchPrecomputedModels[b],
     BranchNumModelsPreComputed |-> q.BranchNumModelsPreComputed[b],
     NumModelsPerBranch |-> q.NumModelsPerBranch[b],
     NumModelPairsPerBranch |-> q.NumModelPairsPerBranch[b]]

\* C26: once a branch is created, its resident model ids, its precomputed
\* models, its size and its pair count are changed by no later operation.
C26_MembershipImmutable ==
    [][\A b \in DOMAIN qmla.BranchModelIds :
           /\ b \in DOMAIN qmla'.BranchModelIds
           /\ Membership(qmla', b) = Membership(qmla, b)]_vars

\* the run is over: a spawned branch with a precomputed model and a ghost
\* branch were made after the seed branch, which still has its two models
C26_Witness ==
    /\ pc = "done"
    /\ GhostBranches # {}
    /\ Len(qmla.BranchModelIds[0]) > 1
    /\ \E b \in DOMAIN qmla.branch_parents : qmla.BranchNumModelsPreComputed[b] > 0

\* the parent/child collapse has been made
CollapseMade == pc \in {"final_trees", "ghost", "final_tournament", "final_champion", "done"}

\* the collapse read the ratio of parent champion p and child champion c
CollapseCompared(p, c) ==
    \E k \in DOMAIN hist.collapse : hist.collapse[k].parent = p /\ hist.collapse[k].child = c

C28_CollapseBetweenDrainAndGhosts ==
    [][/\ (pc = "final" \/ hist'.champs_before # hist.champs_before)
          => /\ \A gen \in DOMAIN qmla.TreesCompleted : qmla.TreesCompleted[gen]
             /\ qmla.NumTreesCompleted = qmla.NumTrees
             /\ AllBranchesDone
             /\ qmla.FinalTrees = <<>>
             /\ qmla'.FinalTrees = <<>>
             /\ DOMAIN qmla'.BranchModelIds = DOMAIN qmla.BranchModelIds
       /\ qmla'.FinalTrees # qmla.FinalTrees
          => /\ pc = "final_trees"
             /\ hist.champs_before # <<>>
             /\ hist'.collapse = hist.collapse]_vars

\* the collapse compared a parent and a child champion, and a ghost branch
\* was made afterwards
C28_Witness ==
    /\ hist.collapse # <<>>
    /\ qmla.FinalTrees # <<>>
    /\ \E b \in DOMAIN qmla.branch_parents : qmla.BranchComparisonsComplete[b]

\* the champions of the branches of the tree of growth rule gen
TreeChampions(gen) ==
    {qmla.BranchChampions[b] :
        b \in {b \in DOMAIN qmla.BranchChampions \ GhostBranches : TreeOf(b) = gen}}

\* the champions the collapse left active
CollapseSurvivors == Range(hist.champs_before) \ CollapseLosers

\* the champions of the ghost branches
GhostChampions ==
    {qmla.BranchChampions[g] : g \in GhostBranches \cap DOMAIN qmla.BranchChampions}

\* every ghost branch has been made
GhostsBuilt == pc \in {"ghost", "final_tournament", "final_champion", "done"}

\* one ghost branch per tree, in the order of the growth rules
OneGhostPerTree ==
    GhostsBuilt =>
        /\ Len(qmla.FinalTrees) = Len(qmla.growth_rules_list)
        /\ \A k \in DOMAIN qmla.FinalTrees : TreeOf(qmla.FinalTrees[k]) = qmla.growth_rules_list[k]

\* the members of a ghost branch are the surviving champions of its tree
GhostMembers ==
    GhostsBuilt =>
        \A g \in GhostBranches :
            Range(qmla.BranchModelIds[g]) = TreeChampions(TreeOf(g)) \cap CollapseSurvivors

\* the final tournament is held among the champions of the ghost branches
FinalParticipants ==
    pc \in {"final_champion", "done"} => Range(qmla.SurvivingChampions) = GhostChampions

\* the champion of the final tournament is the champion of a ghost branch
ChampionIsGhostSurvivor ==
    pc = "final_champion" => qmla.ChampID \subseteq GhostChampions

\* C29: one ghost branch is built per tree, its members are that tree's
\* champions that survived the collapse, the final tournament is held among
\* the champions of the ghost branches and its winner, the global champion,
\* is one of them.
C29_FinalReconciliation ==
    /\ OneGhostPerTree
    /\ GhostMembers
    /\ FinalParticipants
    /\ ChampionIsGhostSurvivor

\* the counters and the map of names agree, the ids being 0..NumModels-1
IdsAllocated(q) ==
    /\ q.HighestModelID = q.NumModels
    /\ DOMAIN q.model_name_id_map = 0..(q.NumModels - 1)

\* C30: model ids are allocated monotonically: a new model gets the next id,
\* no id is reused or removed, and in every state HighestModelID = NumModels
\* = number of entries of model_name_id_map, the ids being 0..NumModels-1.
C30_IdsMonotone ==
    /\ [](IdsAllocated(qmla) /\ qmla.NumModels = Cardinality(DOMAIN qmla.model_name_id_map))
    /\ [][/\ qmla'.NumModels >= qmla.NumModels
          /\ \A m \in DOMAIN qmla.model_name_id_map :
                /\ m \in DOMAIN qmla'.model_name_id_map
                /\ qmla'.model_name_id_map[m] = qmla.model_name_id_map[m]]_vars

\* models were registered after the seeding, one of them under a name that
\* was registered before
C30_Witness ==
    /\ \E k \in DOMAIN hist.add_log : hist.add_log[k].is_new_model
    /\ \E k \in DOMAIN hist.add_log : ~hist.add_log[k].is_new_model
    /\ \E m \in DOMAIN qmla.model_name_id_map : m \notin Range(qmla.InitialModelIDs)

\* learn_models_on_given_branch has been called for branch b
BranchDispatched(b) == b \in DOMAIN redis_databases.active_branches_learning_models

\* C31: in a run with several trees the orchestrator does not block on the
\* seed branch of one tree before it dispatches the seed branch of the next:
\* while it waits for the models of a seed branch, every seed branch has
\* been dispatched.
C31_SeedsNotBlocked ==
    (/\ pc = "seed_learning"
     /\ redis_databases.active_branches_learning_models[ctx.i] < qmla.NumModelsPerBranch[ctx.i])
    => \A b \in SeedBranches : BranchDispatched(b)

\* C31 as amended: with several trees the seed branches are taken one after
\* the other; the seed branch of the next tree is dispatched only when the
\* one before has all its models learned, is marked so, and has all its
\* pairs compared.
C31_SeedsOneByOne ==
    qmla.NumTrees > 1 =>
        \A b \in SeedBranches \ {0} :
            BranchDispatched(b)
            => /\ redis_databases.active_branches_learning_models[b - 1]
                      >= qmla.NumModelsPerBranch[b - 1]
               /\ qmla.BranchAllModelsLearned[b - 1]
               /\ b - 1 \in DOMAIN redis_databases.active_branches_bayes
               /\ redis_databases.active_branches_bayes[b - 1]
                      >= qmla.NumModelPairsPerBranch[b - 1]

\* the second seed branch is learning, the first one being learned
C31_Witness ==
    /\ qmla.NumTrees > 1
    /\ pc = "seed_learning"
    /\ ctx.i = 1
    /\ redis_databases.active_branches_learning_models[1] < qmla.NumModelsPerBranch[1]
    /\ qmla.BranchAllModelsLearned[0]

(***************************************************************************)
(* C32: every resident model is submitted to the Learner exactly once      *)
(***************************************************************************)
\* the Learner jobs submitted so far for the model id
Submissions(id) ==
    {k \in DOMAIN hist.learn_dispatched : hist.learn_dispatched[k].model_id = id}

\* the model ids resident on a branch whose learning has been dispatched
DispatchedResidents ==
    UNION {Range(qmla.BranchModelIds[b]) :
               b \in DOMAIN qmla.BranchModelIds
                     \cap DOMAIN redis_databases.active_branches_learning_models}

\* C32: over a whole run each model id is submitted to the Learner at most
\* once, and every resident model of every branch whose learning has been
\* dispatched has been submitted exactly once
C32_LearnedExactlyOnce ==
    /\ \A k \in DOMAIN hist.learn_dispatched : 
           Cardinality(Submissions(hist.learn_dispatched[k].model_id)) = 1
    /\ pc \notin {"aborted", "crashed"}
       => \A id \in DispatchedResidents : Cardinality(Submissions(id)) = 1

(***************************************************************************)
(* C33: the resident ids of a branch are distinct and as many as its size  *)
(***************************************************************************)
\* the entries of the sequence are pairwise distinct
Distinct(s) == \A i, j \in DOMAIN s : i # j => s[i] # s[j]

\* C33: in every branch the resident model ids are pairwise distinct and
\* their number is the recorded size of the branch
C33_ResidentIdsDistinct ==
    \A b \in DOMAIN qmla.BranchModelIds :
        /\ Distinct(qmla.BranchModelIds[b])
        /\ Len(qmla.BranchModelIds[b]) = qmla.NumModelsPerBranch[b]

(***************************************************************************)
(* C34: the polled counters never pass the sizes they are compared with    *)
(***************************************************************************)
\* C34: the learned count of a branch never exceeds its size and its
\* completed-comparison count never exceeds its pair count
C34_CounterBounds ==
    /\ \A b \in DOMAIN redis_databases.active_branches_learning_models :
           redis_databases.active_branches_learning_models[b] <= qmla.NumModelsPerBranch[b]
    /\ \A b \in DOMAIN redis_databases.active_branches_bayes :
           redis_databases.active_branches_bayes[b] <= qmla.NumModelPairsPerBranch[b]

\* a branch whose learned count joins the credit for a precomputed model with
\* the increment of a worker, and whose comparisons have all been counted
C34_Witness ==
    \E b \in DOMAIN redis_databases.active_branches_bayes :
        /\ qmla.BranchNumModelsPreComputed[b] > 0
        /\ qmla.BranchNumModelsPreComputed[b] < qmla.NumModelsPerBranch[b]
        /\ redis_databases.active_branches_learning_models[b] = qmla.NumModelsPerBranch[b]
        /\ qmla.NumModelPairsPerBranch[b] > 0
        /\ redis_databases.active_branches_bayes[b] = qmla.NumModelPairsPerBranch[b]

(***************************************************************************)
(* C35: the active champion list holds active models only                  *)
(***************************************************************************)
\* the orchestrator has not yet entered perform_final_bayes_comparisons
BeforeFinalReconciliation ==
    pc \in {"start", "seed_learning", "seed_comparing", "generation", "gen_compare",
            "gen_spawn", "tiebreak", "drain"}

\* C35: before the final reconciliation starts, every model id in
\* ActiveBranchChampList has status Active in the model database
C35_ChampListActive ==
    BeforeFinalReconciliation
    => \A id \in Range(qmla.ActiveBranchChampList) : StatusOf(qmla.db, id) = {"Active"}

(***************************************************************************)
(* C36: the frozen ranking of a branch starts with the branch champion     *)
(***************************************************************************)
\* C36: the first element of the ranking recorded for a branch is the
\* champion recorded for that branch, also after a tie-break
C36_RankingStartsWithChampion ==
    \A b \in DOMAIN qmla.branch_rankings \cap DOMAIN qmla.BranchChampions :
        qmla.branch_rankings[b][1] = qmla.BranchChampions[b]

(***************************************************************************)
(* C37: the lineage of the branches is a forest                            *)
(***************************************************************************)
\* the branches the step creates
NewBranches == DOMAIN qmla'.BranchModels \ DOMAIN qmla.BranchModels

\* compare_all_models_in_branch has returned for the branch
WasCompared(b) ==
    \E k \in DOMAIN hist.events :
        hist.events[k].ev = "Compared" /\ hist.events[k].branch = b

\* the orchestrator is in the generation loop or its drain
InGenerationLoop == pc \in {"generation", "gen_compare", "gen_spawn", "tiebreak", "drain"}

\* the lineage recorded so far: parents have smaller ids and are of the same
\* tree, and no seed branch has a parent
LineageWellFormed ==
    /\ \A b \in DOMAIN qmla.branch_parents :
           /\ b \in DOMAIN qmla.BranchModels
           /\ qmla.branch_parents[b] \in DOMAIN qmla.BranchModels
           /\ qmla.branch_parents[b] < b
           /\ qmla.Branchget_growth_rule[qmla.branch_parents[b]] = qmla.Branchget_growth_rule[b]
    /\ \A b \in SeedBranches : b \notin DOMAIN qmla.branch_parents

\* a step creates branches with ids above every id there is, records a
\* parent only when the generation loop spawns, that parent being compared
\* already, and never changes a recorded parent
LineageStep ==
    /\ \A b \in NewBranches :
           /\ \A a \in DOMAIN qmla.BranchModels : a < b
           /\ b \in DOMAIN qmla'.branch_parents
              => /\ pc = "gen_spawn"
                 /\ WasCompared(qmla'.branch_parents[b])
           /\ ~InGenerationLoop => b \notin DOMAIN qmla'.branch_parents
    /\ \A b \in DOMAIN qmla.branch_parents :
           /\ b \in DOMAIN qmla'.branch_parents
           /\ qmla'.branch_parents[b] = qmla.branch_parents[b]
    /\ DOMAIN qmla'.branch_parents \subseteq DOMAIN qmla.branch_parents \cup NewBranches

\* C37: branch ids increase in creation order, every recorded parent has a
\* smaller id than its child, is of the same tree and was compared when the
\* child was created; seed branches and ghost branches have no parent
C37_LineageForest == [](LineageWellFormed) /\ [][LineageStep]_vars

\* both trees have spawned a branch with a recorded parent and the ghost
\* branches of the final reconciliation are there
C37_Witness ==
    /\ qmla.NumTrees > 1
    /\ \A s \in SeedBranches : \E b \in DOMAIN qmla.branch_parents : qmla.branch_parents[b] = s
    /\ \E g \in DOMAIN qmla.BranchModels :
           g \notin SeedBranches /\ g \notin DOMAIN qmla.branch_parents

(***************************************************************************)
(* C38: a branch is the parent of at most one branch                       *)
(***************************************************************************)
\* C38: no two branches have the same recorded parent
C38_OneChildPerBranch ==
    \A a, b \in DOMAIN qmla.branch_parents :
        qmla.branch_parents[a] = qmla.branch_parents[b] => a = b

\* a tree that has grown two generations: the seed branch and its child have
\* one child each
C38_Witness ==
    \E a, b \in DOMAIN qmla.branch_parents :
        /\ qmla.branch_parents[b] = a
        /\ qmla.Branchget_growth_rule[a] = qmla.Branchget_growth_rule[b]

(***************************************************************************)
(* C39: the count of completed trees and the flags of the trees            *)
(***************************************************************************)
\* the growth rules whose tree is flagged complete
CompletedTrees(q) == {g \in DOMAIN q.TreesCompleted : q.TreesCompleted[g]}

AllTreesCompleted == CompletedTrees(qmla) = DOMAIN qmla.TreesCompleted

\* the orchestrator has left the generation loop by its loop test
PastGenerationLoop ==
    pc \in {"drain", "final", "final_trees", "ghost", "final_tournament",
            "final_champion", "done"}

\* the count is the number of flags set, and is at most the number of trees
TreeCountConsistent ==
    /\ qmla.NumTreesCompleted = Cardinality(CompletedTrees(qmla))
    /\ qmla.NumTreesCompleted <= qmla.NumTrees
    /\ PastGenerationLoop => AllTreesCompleted

\* a flag that is set stays set, and the loop test (the orchestrator's step
\* from the head of the loop) leaves the loop exactly when every flag is set
TreeFlagStep ==
    /\ CompletedTrees(qmla) \subseteq CompletedTrees(qmla')
    /\ pc = "generation" /\ pc' # pc => (pc' = "drain" <=> AllTreesCompleted)

\* C39: NumTreesCompleted is the number of trees flagged complete and never
\* exceeds NumTrees, a flag goes from false to true and never back, and the
\* generation loop exits exactly when every flag is true
C39_TreesCompletedCount == [](TreeCountConsistent) /\ [][TreeFlagStep]_vars

\* a two-tree run inside the loop with one tree complete, the other still
\* growing
C39_Witness ==
    /\ pc = "gen_compare"
    /\ qmla.NumTrees = 2
    /\ qmla.NumTreesCompleted = 1
    /\ Cardinality(CompletedTrees(qmla)) = 1

(***************************************************************************)
(* C40: the two classifications of a branch as ghost branch                *)
(***************************************************************************)
\* qmla_branch.__init__ (tree.py): the flag is set when the branch is built
\* with no precomputed model
is_ghost_branch(precomputed_models) == Len(precomputed_models) = 0

\* C40: for every branch whose learning has been dispatched, the flag
\* qmla_branch would carry for the precomputed models of the branch agrees
\* with the membership of the branch in ghost_branch_list
C40_GhostClassificationsAgree ==
    \A b \in DOMAIN qmla.BranchModels :
        BranchDispatched(b)
        => (is_ghost_branch(qmla.BranchPrecomputedModels[b])
            <=> Contains(qmla.ghost_branch_list, b))

====
